---------------------------- MODULE Spec2Model ----------------------------
(***************************************************************************)
(* Key-transparency publish/witness protocol.                              *)
(*                                                                         *)
(* The witness safety state machine (witness/src/core_handler.rs), the     *)
(* publish messages and their verification (messages/src/publish.rs), the  *)
(* vote aggregator (idp/src/aggregator.rs) and the IdP pipeline            *)
(* (idp/src/batcher.rs, prover.rs, publisher.rs).                          *)
(*                                                                         *)
(* The `config` crate (Committee) and the `crypto` crate (Signature) are   *)
(* not part of the sources; they are modelled from the specification:      *)
(* a signature is the pair of its signer and the digest it covers, and it  *)
(* verifies under a key for a digest exactly when both match.              *)
(*                                                                         *)
(* core_handler.rs marks the place of every reply with `unimplemented!()`  *)
(* under a comment naming the reply.  The reply travels through the        *)
(* one-shot `Replier` of witness/src/lib.rs; what is replied is modelled   *)
(* from the specification (section 4.3).                                   *)
(***************************************************************************)
EXTENDS Integers, Sequences, FiniteSets, TLC

\* ------------------------------------------------------------------------
\* Bounds of the model.

\* Sequence numbers of the messages the environment sends are 0..MaxSeq; a
\* witness finalizes while its sequence number is at most MaxSeq.
MaxSeq == 1

\* The certificates verified hold at most MaxVotes votes.
MaxVotes == 4

\* The IdP receives at most MaxUpdates client updates.
MaxUpdates == 2

\* The IdP stops at most MaxCrashes times.
MaxCrashes == 1

\* ------------------------------------------------------------------------
\* State.

VARIABLES
    committee,        \* Committee: the voting power of each witness

    \* The witnesses (PublishHandler).
    tracked,          \* the witnesses running the handler; the others are arbitrary
    pc,               \* position of each handler task
    sequence_number,  \* PublishHandler.sequence_number
    lock,             \* PublishHandler.lock: Option<PublishVote>
    storage,          \* the secure storage of each witness
    cur,              \* the message being handled (and the vote made for a notification)
    reply,            \* the last reply sent by the running witness process
    voted,            \* every vote that left a witness, with the proof it answered
    survived,         \* the votes that left a witness before a restart of it

    \* A call of PublishCertificate::verify.
    certificate,      \* the certificate verified
    outcome,          \* Option of the result of the call

    \* The vote aggregator.
    aggregator,       \* Aggregator { root, weight, votes, used }
    returned,         \* Option of the result of the last call of append
    emitted,          \* number of certificates append returned since the last reset

    \* The identity provider.
    idp_pc,           \* position of the batcher, prover and publisher tasks
    submitted,        \* number of client updates received
    valid_updates,    \* number of client updates that deserialized
    current_batch,    \* Batcher.current_batch
    current_batch_size, \* Batcher.current_batch_size
    decoded,          \* the client updates that deserialized, in arrival order
    rx_batch,         \* channel batcher -> prover
    prover_seq,       \* Prover.sequence_number
    akd,              \* the batches published to the key directory (durable)
    rx_notification,  \* channel prover -> publisher
    idp_storage,      \* value at STORE_LAST_NOTIFICATION_ADDR (durable)
    serialized,       \* the notification the publisher is handling
    round,            \* number of notification broadcasts so far
    waiting,          \* wait_for_quorum: the witnesses whose reply is awaited
    sync_handles,     \* wait_for_quorum: the handles returned by sync
    broadcasts,       \* the notifications broadcast since the IdP started
    built,            \* the notifications built by the prover since the IdP started
    restored,         \* the value of idp_storage when the IdP started
    crashes,          \* number of stops of the IdP

    \* The network between the publisher and the witnesses.
    inbox,            \* the messages sent to each witness, not yet handled
    handles,          \* the reply received on each handle of the current broadcast
    serving,          \* the broadcast each witness is answering

    \* A call of PublishNotification::verify.
    presented,        \* the notification verified
    notified,         \* Option of the result of the call

    \* The sync helper of each witness (SyncHelper).
    audit_storage,    \* the audit storage of each witness
    queried,          \* the last certificate query each witness received
    answer            \* what came back to the sender of that query

cvars == << committee >>

vvars == << certificate, outcome >>

avars == << aggregator, returned, emitted >>

pvars == << idp_pc, submitted, valid_updates, current_batch, current_batch_size,
           decoded, rx_batch, prover_seq, akd,
           rx_notification, idp_storage, serialized, round, waiting, sync_handles,
           broadcasts, built, restored, crashes >>

nvars == << inbox, handles, serving >>

mvars == << presented, notified >>

hvars == << audit_storage, queried, answer >>

\* ------------------------------------------------------------------------
\* Option<T>: None is the empty sequence, Some(x) the one-element sequence.

None == << >>

Some(x) == << x >>

IsSome(o) == Len(o) = 1

Unwrap(o) == o[1]

\* ------------------------------------------------------------------------
\* Keys, roots, proofs.

\* The four witnesses of the test committee.
Witnesses == {"w1", "w2", "w3", "w4"}

\* The key of the identity provider.
IdpKey == "idp"

\* A key that is not part of the committee.
Mallory == "mallory"

Keys == Witnesses \cup {IdpKey, Mallory}

\* State roots (32-byte commitments).
Roots == {"R0", "R1"}

\* Audit proofs; not covered by the digest.
Proofs == {"P0", "P1"}

SeqNums == 0..MaxSeq

\* ------------------------------------------------------------------------
\* Committee.

\* The witnesses in the order of their keys.
CommitteeOrder == << "w1", "w2", "w3", "w4" >>

\* The committee of the tests: every witness has voting power 1.
TestCommittee == [w \in Witnesses |-> 1]

\* Committees with unequal voting powers (total 5 and 7).
Committees ==
    { TestCommittee,
      [w \in Witnesses |-> IF w = "w1" THEN 2 ELSE 1],
      [w \in Witnesses |-> IF w = "w1" THEN 3 ELSE IF w = "w2" THEN 2 ELSE 1] }

\* Committee::voting_power: 0 for a key that is not a witness.
voting_power(pk) == IF pk \in DOMAIN committee THEN committee[pk] ELSE 0

RECURSIVE SumPower(_)
SumPower(S) ==
    IF S = {} THEN 0
    ELSE LET x == CHOOSE y \in S : TRUE
         IN  voting_power(x) + SumPower(S \ {x})

total_votes == SumPower(Witnesses)

\* 2f+1 out of N = 3f+1+k: floor(2N/3) + 1.
quorum_threshold == (2 * total_votes) \div 3 + 1

\* ------------------------------------------------------------------------
\* Digests and signatures.

\* Sha512(root || sequence_number.to_le_bytes())[..32]: a collision-free
\* function of the root and the sequence number only.
digest(m) == << m.root, m.sequence_number >>

Digests == Roots \X (0..(MaxSeq + 1))

\* Signature::new(digest, keypair)
Sign(d, key) == [signer |-> key, digest |-> d]

\* Signature::verify(digest, public_key)
SigVerify(sig, d, pk) == sig.signer = pk /\ sig.digest = d

\* ------------------------------------------------------------------------
\* Errors (MessageError and WitnessError), as uniform records.

Error(name, expected, got, lock_root, received_root) ==
    [name |-> name, expected |-> expected, got |-> got,
     lock_root |-> lock_root, received_root |-> received_root]

NoError == Error("", 0, 0, "", "")

MalformedNotificationId == Error("MalformedNotificationId", 0, 0, "", "")

InvalidSignature == Error("InvalidSignature", 0, 0, "", "")

UnknownWitness == Error("UnknownWitness", 0, 0, "", "")

WitnessReuse == Error("WitnessReuse", 0, 0, "", "")

CertificateRequiresQuorum == Error("CertificateRequiresQuorum", 0, 0, "", "")

UnexpectedSequenceNumber(expected, got) ==
    Error("UnexpectedSequenceNumber", expected, got, "", "")

ConflictingNotification(lock_root, received_root) ==
    Error("ConflictingNotification", 0, 0, lock_root, received_root)

MissingEarlierCertificates(current) ==
    Error("MissingEarlierCertificates", current, 0, "", "")

\* Result<T, E> with T an Option-wrapped value.
Ok(x) == [ok |-> TRUE, val |-> Some(x), err |-> NoError]

Err(e) == [ok |-> FALSE, val |-> None, err |-> e]

\* ------------------------------------------------------------------------
\* Publish notifications.

\* PublishNotification::new
NewNotification(root, proof, seq, key) ==
    LET id == digest([root |-> root, sequence_number |-> seq])
    IN  [root |-> root, proof |-> proof, sequence_number |-> seq,
         id |-> id, signature |-> Sign(id, key)]

\* PublishNotification::verify without the check of the id.
VerifyNotificationSkippingId(n) ==
    IF ~SigVerify(n.signature, n.id, IdpKey) THEN Err(InvalidSignature)
    ELSE Ok(TRUE)

\* PublishNotification::verify
VerifyNotification(n) ==
    IF digest(n) # n.id THEN Err(MalformedNotificationId)
    ELSE IF ~SigVerify(n.signature, n.id, IdpKey) THEN Err(InvalidSignature)
    ELSE Ok(TRUE)

\* ------------------------------------------------------------------------
\* Publish votes.

\* A vote for the sequence number after the notification's.
NewVoteNextSeq(n, key) ==
    LET v == [root |-> n.root, sequence_number |-> n.sequence_number + 1]
    IN  [root |-> n.root, sequence_number |-> n.sequence_number + 1,
         author |-> key, signature |-> Sign(digest(v), key)]

\* PublishVote::new
NewVote(n, key) ==
    LET v == [root |-> n.root, sequence_number |-> n.sequence_number]
    IN  [root |-> n.root, sequence_number |-> n.sequence_number,
         author |-> key, signature |-> Sign(digest(v), key)]

\* PublishVote::verify
VerifyVote(v) ==
    IF ~(voting_power(v.author) > 0) THEN Err(UnknownWitness)
    ELSE IF ~SigVerify(v.signature, digest(v), v.author) THEN Err(InvalidSignature)
    ELSE Ok(TRUE)

\* ------------------------------------------------------------------------
\* Publish certificates.

\* The loop of PublishCertificate::verify over votes[i..]: the accumulated
\* weight, or the first error.
RECURSIVE CertificateWeight(_, _, _, _)
CertificateWeight(votes, i, used, weight) ==
    IF i > Len(votes) THEN Ok(weight)
    ELSE LET name == votes[i][1]
         IN  IF name \in used THEN Err(WitnessReuse)
             ELSE IF ~(voting_power(name) > 0) THEN Err(UnknownWitness)
             ELSE CertificateWeight(votes, i + 1, used \cup {name},
                                    weight + voting_power(name))

\* Signature::verify_batch(digest, votes)
VerifyBatch(d, votes) ==
    \A i \in 1..Len(votes) : SigVerify(votes[i][2], d, votes[i][1])

\* PublishCertificate::verify that asks for exactly the quorum.
VerifyCertificateExactQuorum(c) ==
    LET w == CertificateWeight(c.votes, 1, {}, 0)
    IN  IF ~w.ok THEN w
        ELSE IF ~(Unwrap(w.val) = quorum_threshold) THEN Err(CertificateRequiresQuorum)
        ELSE IF ~VerifyBatch(digest(c), c.votes) THEN Err(InvalidSignature)
        ELSE Ok(TRUE)

\* PublishCertificate::verify
VerifyCertificate(c) ==
    LET w == CertificateWeight(c.votes, 1, {}, 0)
    IN  IF ~w.ok THEN w
        ELSE IF ~(Unwrap(w.val) >= quorum_threshold) THEN Err(CertificateRequiresQuorum)
        ELSE IF ~VerifyBatch(digest(c), c.votes) THEN Err(InvalidSignature)
        ELSE Ok(TRUE)

\* ------------------------------------------------------------------------
\* Storage and (de)serialization.

\* Storage address of the sequence number ([0; 32]).
STORE_SEQ_ADDR == 0

\* Storage address of the witness' lock ([1; 32]).
STORE_LOCK_ADDR == 1

StorageAddrs == {STORE_SEQ_ADDR, STORE_LOCK_ADDR}

\* A storage in which nothing was written: every read yields None.
EmptyStorage == [a \in StorageAddrs |-> None]

\* Storage::write
StorageWrite(st, addr, bytes) == [st EXCEPT ![addr] = Some(bytes)]

\* Storage::read
StorageRead(st, addr) == st[addr]

RECURSIVE LeBytes(_, _)
LeBytes(x, n) == IF n = 0 THEN << >> ELSE << x % 256 >> \o LeBytes(x \div 256, n - 1)

\* u64::to_le_bytes
to_le_bytes(x) == LeBytes(x, 8)

RECURSIVE LeValue(_, _)
LeValue(bytes, i) ==
    IF i > Len(bytes) THEN 0
    ELSE bytes[i] + 256 * LeValue(bytes, i + 1)

\* u64::from_le_bytes(bytes.try_into().expect(..)): None when the value is
\* not 8 bytes long.
from_le_bytes(bytes) == IF Len(bytes) = 8 THEN Some(LeValue(bytes, 1)) ELSE None

\* bincode::serialize(&vote): the fields in declaration order.
SerializeVote(v) == << v.root, v.sequence_number, v.author, v.signature >>

\* Vec::default(): the empty byte string written when the lock is cleared.
EmptyBytes == << >>

\* bincode::deserialize::<PublishVote>(&bytes): None when the bytes do not
\* hold the four fields of a vote.
DeserializeVote(bytes) ==
    IF Len(bytes) = 4
    THEN Some([root |-> bytes[1], sequence_number |-> bytes[2],
               author |-> bytes[3], signature |-> bytes[4]])
    ELSE None

\* ------------------------------------------------------------------------
\* State of the witnesses.

wvars == << tracked, pc, sequence_number, lock, storage, cur, reply, voted, survived >>

\* The votes that left the witnesses.
Votes == { x.vote : x \in voted }

\* WitnessToIdPMessage::PublishVote(result)
PublishVoteReply(result) == [kind |-> "PublishVote", result |-> result]

\* sync::State (the root field has no counterpart in the handler).
StateOf(w) == [sequence_number |-> sequence_number[w], lock |-> lock[w]]

\* WitnessToIdPMessage::State(result)
StateReply(result) == [kind |-> "State", result |-> result]

\* make_vote without the check of the lock: a fresh vote for every valid
\* notification of the current sequence number.
make_vote_ignoring_lock(w, n) ==
    LET verified == VerifyNotification(n)
    IN  IF ~verified.ok THEN verified
        ELSE IF sequence_number[w] # n.sequence_number
        THEN Err(UnexpectedSequenceNumber(sequence_number[w], n.sequence_number))
        ELSE Ok(NewVote(n, w))

\* make_vote refusing every notification once locked.
make_vote_refusing_when_locked(w, n) ==
    LET verified == VerifyNotification(n)
    IN  IF ~verified.ok THEN verified
        ELSE IF sequence_number[w] # n.sequence_number
        THEN Err(UnexpectedSequenceNumber(sequence_number[w], n.sequence_number))
        ELSE IF IsSome(lock[w])
        THEN Err(ConflictingNotification(Unwrap(lock[w]).root, n.root))
        ELSE Ok(NewVote(n, w))

\* make_vote refusing only the notifications ahead of the witness.
make_vote_accepting_earlier(w, n) ==
    LET verified == VerifyNotification(n)
    IN  IF ~verified.ok THEN verified
        ELSE IF sequence_number[w] < n.sequence_number
        THEN Err(UnexpectedSequenceNumber(sequence_number[w], n.sequence_number))
        ELSE IF IsSome(lock[w])
        THEN IF Unwrap(lock[w]).root # n.root
             THEN Err(ConflictingNotification(Unwrap(lock[w]).root, n.root))
             ELSE Ok(Unwrap(lock[w]))
        ELSE Ok(NewVote(n, w))

\* make_vote replacing its lock by a vote for the notification received.
make_vote_replacing_lock(w, n) ==
    LET verified == VerifyNotification(n)
    IN  IF ~verified.ok THEN verified
        ELSE IF sequence_number[w] # n.sequence_number
        THEN Err(UnexpectedSequenceNumber(sequence_number[w], n.sequence_number))
        ELSE IF IsSome(lock[w]) /\ Unwrap(lock[w]).root = n.root
        THEN Ok(Unwrap(lock[w]))
        ELSE Ok(NewVote(n, w))

\* make_vote that checks the sequence number and the lock of a notification
\* without verifying it.
make_vote_unverified(w, n) ==
    IF sequence_number[w] # n.sequence_number
    THEN Err(UnexpectedSequenceNumber(sequence_number[w], n.sequence_number))
    ELSE IF IsSome(lock[w])
    THEN IF Unwrap(lock[w]).root # n.root
         THEN Err(ConflictingNotification(Unwrap(lock[w]).root, n.root))
         ELSE Ok(Unwrap(lock[w]))
    ELSE Ok(NewVote(n, w))

\* PublishHandler::make_vote
make_vote(w, n) ==
    LET verified == VerifyNotification(n)
    IN  IF ~verified.ok THEN verified
        ELSE IF sequence_number[w] # n.sequence_number
        THEN Err(UnexpectedSequenceNumber(sequence_number[w], n.sequence_number))
        ELSE IF IsSome(lock[w])
        THEN IF Unwrap(lock[w]).root # n.root
             THEN Err(ConflictingNotification(Unwrap(lock[w]).root, n.root))
             ELSE Ok(Unwrap(lock[w]))
        ELSE Ok(NewVote(n, w))

\* process_certificate without the verification of the certificate.
process_certificate_unverified(w, c) ==
    IF ~(sequence_number[w] >= c.sequence_number)
    THEN Err(MissingEarlierCertificates(sequence_number[w]))
    ELSE Ok(TRUE)

\* process_certificate without the check of the sequence number.
process_certificate_unordered(w, c) ==
    LET verified == VerifyCertificate(c)
    IN  IF ~verified.ok THEN verified ELSE Ok(TRUE)

\* process_certificate accepting only the current sequence number.
process_certificate_current_only(w, c) ==
    LET verified == VerifyCertificate(c)
    IN  IF ~verified.ok THEN verified
        ELSE IF sequence_number[w] # c.sequence_number
        THEN Err(MissingEarlierCertificates(sequence_number[w]))
        ELSE Ok(TRUE)

\* PublishHandler::process_certificate
process_certificate(w, c) ==
    LET verified == VerifyCertificate(c)
    IN  IF ~verified.ok THEN verified
        ELSE IF ~(sequence_number[w] >= c.sequence_number)
        THEN Err(MissingEarlierCertificates(sequence_number[w]))
        ELSE Ok(TRUE)

\* ------------------------------------------------------------------------
\* Messages the IdP (honest or not) can send to a witness.

\* A digest other than the digest of (root, sequence_number).
OtherDigest(root, seq) == << root, seq + 1 >>

ValidNotifications ==
    { NewNotification(r, p, s, IdpKey) : r \in Roots, p \in Proofs, s \in SeqNums }

\* The id is not the digest of the message (the signature covers the id).
MalformedNotifications ==
    { [NewNotification(r, "P0", s, IdpKey) EXCEPT
           !.id = OtherDigest(r, s),
           !.signature = Sign(OtherDigest(r, s), IdpKey)] :
      r \in Roots, s \in SeqNums }

\* Signed by a key that is not the IdP's, or by the IdP over another digest.
BadlySignedNotifications ==
    { NewNotification(r, "P0", s, Mallory) : r \in Roots, s \in SeqNums }
    \cup { [NewNotification(r, "P0", s, IdpKey) EXCEPT
                !.signature = Sign(OtherDigest(r, s), IdpKey)] :
           r \in Roots, s \in SeqNums }

Notifications ==
    ValidNotifications \cup MalformedNotifications \cup BadlySignedNotifications

\* The signatures that exist: a tracked witness signs only the votes it
\* replies with; every other key may have signed anything.
CanSign(a, d) ==
    \/ a \notin tracked
    \/ \E v \in Votes : v.author = a /\ digest(v) = d

\* The signature presented for author a over d: the real one when it exists,
\* else a forgery (made with another key).
PresentedSig(a, d) == IF CanSign(a, d) THEN Sign(d, a) ELSE Sign(d, Mallory)

\* The author lists of the certificates sent: the whole committee, a quorum
\* with and one without w1, lists without a quorum, a list with a repeated
\* author and lists with a key outside the committee.
AuthorLists ==
    { << "w1", "w2", "w3", "w4" >>,
      << "w1", "w2", "w3" >>, << "w2", "w3", "w4" >>,
      << "w1", "w2" >>, << >>,
      << "w1", "w2", "w1", "w3" >>,
      << "w1", "w2", "w3", Mallory >>,
      << Mallory, "w1", "w1" >> }

Certificate(root, s, authors) ==
    LET d == digest([root |-> root, sequence_number |-> s])
    IN  [root |-> root, sequence_number |-> s,
         votes |-> [i \in 1..Len(authors) |->
                        << authors[i], PresentedSig(authors[i], d) >>]]

Certificates ==
    { Certificate(r, s, a) : r \in Roots, s \in SeqNums, a \in AuthorLists }

\* ------------------------------------------------------------------------
\* The witness handler task (PublishHandler::spawn and PublishHandler::run).
\* The handling of a message is split where the process can stop between a
\* storage write and what follows it; nothing else of the witness runs in
\* between (the handler is one task).

\* A freshly spawned handler on an empty storage.
InitWitnesses(T) ==
    /\ tracked = T
    /\ pc = [w \in T |-> "idle"]
    /\ sequence_number = [w \in T |-> 0]
    /\ lock = [w \in T |-> None]
    /\ storage = [w \in T |-> EmptyStorage]
    /\ cur = [w \in T |-> None]
    /\ reply = [w \in T |-> None]
    /\ voted = {}
    /\ survived = {}

\* A notification is received and the lock is registered in memory only.
RecvNotificationInMemory(w, n) ==
    /\ pc[w] = "idle"
    /\ LET result == make_vote(w, n)
       IN  IF ~result.ok
           THEN /\ reply' = [reply EXCEPT ![w] = Some(PublishVoteReply(result))]
                /\ UNCHANGED << pc, lock, cur >>
           ELSE /\ lock' = [lock EXCEPT ![w] = result.val]
                /\ cur' = [cur EXCEPT ![w] =
                       Some([notification |-> n, vote |-> Unwrap(result.val)])]
                /\ pc' = [pc EXCEPT ![w] = "reply_vote"]
                /\ UNCHANGED reply
    /\ UNCHANGED << tracked, sequence_number, storage, voted, survived >>

\* A notification is received: make_vote; on error the error is replied, else
\* the lock is registered in memory and persisted.
RecvNotification(w, n) ==
    /\ pc[w] = "idle"
    /\ LET result == make_vote(w, n)
       IN  IF ~result.ok
           THEN /\ reply' = [reply EXCEPT ![w] = Some(PublishVoteReply(result))]
                /\ UNCHANGED << pc, lock, storage, cur >>
           ELSE /\ lock' = [lock EXCEPT ![w] = result.val]
                /\ storage' = [storage EXCEPT ![w] =
                       StorageWrite(@, STORE_LOCK_ADDR, SerializeVote(Unwrap(result.val)))]
                /\ cur' = [cur EXCEPT ![w] =
                       Some([notification |-> n, vote |-> Unwrap(result.val)])]
                /\ pc' = [pc EXCEPT ![w] = "reply_vote"]
                /\ UNCHANGED reply
    /\ UNCHANGED << tracked, sequence_number, voted, survived >>

\* The vote leaves the witness.
ReplyVote(w) ==
    /\ pc[w] = "reply_vote"
    /\ reply' = [reply EXCEPT ![w] = Some(PublishVoteReply(Ok(Unwrap(cur[w]).vote)))]
    /\ voted' = voted \cup {[vote |-> Unwrap(cur[w]).vote,
                              proof |-> Unwrap(cur[w]).notification.proof]}
    /\ cur' = [cur EXCEPT ![w] = None]
    /\ pc' = [pc EXCEPT ![w] = "idle"]
    /\ UNCHANGED << tracked, sequence_number, lock, storage, survived >>

\* A certificate is received: process_certificate; on error the error is
\* replied; a certificate for the current sequence number increments the
\* sequence number and persists it; an older one is only acknowledged.
RecvCertificate(w, c) ==
    /\ pc[w] = "idle"
    /\ LET result == process_certificate(w, c)
       IN  IF ~result.ok
           THEN /\ reply' = [reply EXCEPT ![w] = Some(StateReply(result))]
                /\ UNCHANGED << pc, sequence_number, storage, cur >>
           ELSE IF sequence_number[w] = c.sequence_number
           THEN /\ sequence_number' = [sequence_number EXCEPT ![w] = @ + 1]
                /\ storage' = [storage EXCEPT ![w] =
                       StorageWrite(@, STORE_SEQ_ADDR, to_le_bytes(sequence_number[w] + 1))]
                /\ cur' = [cur EXCEPT ![w] = Some([certificate |-> c])]
                /\ pc' = [pc EXCEPT ![w] = "clear_lock"]
                /\ UNCHANGED reply
           ELSE /\ reply' = [reply EXCEPT ![w] = Some(StateReply(Ok(StateOf(w))))]
                /\ UNCHANGED << pc, sequence_number, storage, cur >>
    /\ UNCHANGED << tracked, lock, voted, survived >>

\* The lock is cleared in storage and kept in memory.
ClearLockInStorageOnly(w) ==
    /\ pc[w] = "clear_lock"
    /\ storage' = [storage EXCEPT ![w] = StorageWrite(@, STORE_LOCK_ADDR, EmptyBytes)]
    /\ pc' = [pc EXCEPT ![w] = "reply_state"]
    /\ UNCHANGED << tracked, sequence_number, lock, cur, reply, voted, survived >>

\* The lock is cleared in memory and an empty value is written at its address.
ClearLock(w) ==
    /\ pc[w] = "clear_lock"
    /\ lock' = [lock EXCEPT ![w] = None]
    /\ storage' = [storage EXCEPT ![w] = StorageWrite(@, STORE_LOCK_ADDR, EmptyBytes)]
    /\ pc' = [pc EXCEPT ![w] = "reply_state"]
    /\ UNCHANGED << tracked, sequence_number, cur, reply, voted, survived >>

\* The acknowledgement of a processed certificate leaves the witness.
ReplyState(w) ==
    /\ pc[w] = "reply_state"
    /\ reply' = [reply EXCEPT ![w] = Some(StateReply(Ok(StateOf(w))))]
    /\ cur' = [cur EXCEPT ![w] = None]
    /\ pc' = [pc EXCEPT ![w] = "idle"]
    /\ UNCHANGED << tracked, sequence_number, lock, storage, voted, survived >>

\* A state query is answered with the current state.
StateQuery(w) ==
    /\ pc[w] = "idle"
    /\ reply' = [reply EXCEPT ![w] = Some(StateReply(Ok(StateOf(w))))]
    /\ UNCHANGED << tracked, pc, sequence_number, lock, storage, cur, voted, survived >>

\* The witness process stops at any point: its memory and its connections are
\* lost, its storage and the votes that already left it are not.
Crash(w) ==
    /\ pc[w] # "down"
    /\ pc' = [pc EXCEPT ![w] = "down"]
    /\ sequence_number' = [sequence_number EXCEPT ![w] = 0]
    /\ lock' = [lock EXCEPT ![w] = None]
    /\ cur' = [cur EXCEPT ![w] = None]
    /\ reply' = [reply EXCEPT ![w] = None]
    /\ UNCHANGED << tracked, storage, voted, survived >>

\* PublishHandler::spawn, the reading of the storage: the sequence number and
\* the lock the handler starts with, or a panic when a value read does not
\* deserialize (the lock is deserialized whenever its address holds a value,
\* the empty one included).
spawn(st) ==
    LET seq_bytes == StorageRead(st, STORE_SEQ_ADDR)
        lock_bytes == StorageRead(st, STORE_LOCK_ADDR)
        seq == IF IsSome(seq_bytes) THEN from_le_bytes(Unwrap(seq_bytes)) ELSE Some(0)
        vote == IF IsSome(lock_bytes) THEN DeserializeVote(Unwrap(lock_bytes)) ELSE None
    IN  IF ~IsSome(seq) \/ (IsSome(lock_bytes) /\ ~IsSome(vote))
        THEN [panicked |-> TRUE, sequence_number |-> 0, lock |-> None]
        ELSE [panicked |-> FALSE, sequence_number |-> Unwrap(seq), lock |-> vote]

\* A spawn that reads the sequence number back but not the lock.
RestartWithoutLock(w) ==
    /\ pc[w] = "down"
    /\ LET seq_bytes == StorageRead(storage[w], STORE_SEQ_ADDR)
           seq == IF IsSome(seq_bytes) THEN from_le_bytes(Unwrap(seq_bytes)) ELSE Some(0)
       IN  /\ pc' = [pc EXCEPT ![w] = "idle"]
           /\ sequence_number' = [sequence_number EXCEPT ![w] = Unwrap(seq)]
           /\ lock' = [lock EXCEPT ![w] = None]
    /\ survived' = survived \cup { v \in Votes : v.author = w }
    /\ UNCHANGED << tracked, storage, cur, reply, voted >>

\* PublishHandler::spawn on the witness' storage: the sequence number and the
\* lock are read back; a value that does not deserialize makes the task panic
\* before it handles any message.
Restart(w) ==
    /\ pc[w] = "down"
    /\ LET seq_bytes == StorageRead(storage[w], STORE_SEQ_ADDR)
           lock_bytes == StorageRead(storage[w], STORE_LOCK_ADDR)
           seq == IF IsSome(seq_bytes) THEN from_le_bytes(Unwrap(seq_bytes)) ELSE Some(0)
           vote == IF IsSome(lock_bytes) THEN DeserializeVote(Unwrap(lock_bytes)) ELSE None
       IN  IF ~IsSome(seq) \/ (IsSome(lock_bytes) /\ ~IsSome(vote))
           THEN /\ pc' = [pc EXCEPT ![w] = "panicked"]
                /\ UNCHANGED << sequence_number, lock >>
           ELSE /\ pc' = [pc EXCEPT ![w] = "idle"]
                /\ sequence_number' = [sequence_number EXCEPT ![w] = Unwrap(seq)]
                /\ lock' = [lock EXCEPT ![w] = vote]
    /\ survived' = survived \cup { v \in Votes : v.author = w }
    /\ UNCHANGED << tracked, storage, cur, reply, voted >>

\* ------------------------------------------------------------------------
\* The vote aggregator (idp/src/aggregator.rs).

\* IdpError::UnexpectedVote { expected, received }
UnexpectedVote(expected, received) ==
    Error("UnexpectedVote", 0, 0, expected, received)

\* IdpError::UnexpectedProtocolMessage
UnexpectedProtocolMessage == Error("UnexpectedProtocolMessage", 0, 0, "", "")

\* IdpError::InvalidRequest
InvalidRequest == Error("InvalidRequest", 0, 0, "", "")

\* Aggregator::new
AggregatorNew(root) == [root |-> root, weight |-> 0, votes |-> << >>, used |-> {}]

\* Aggregator::reset keeping the set of used authors.
reset_keeping_used(agg, root) ==
    [root |-> root, weight |-> 0, votes |-> << >>, used |-> agg.used]

\* Aggregator::reset
reset(agg, root) == [root |-> root, weight |-> 0, votes |-> << >>, used |-> {}]

\* The call of Aggregator::clear by the publisher: the votes gathered are
\* dropped, the root stays.
clear(agg) == [agg EXCEPT !.weight = 0, !.votes = << >>, !.used = {}]

\* Aggregator::append without the check that the author did not vote yet.
append_without_reuse_check(agg, vote) ==
    IF agg.root # vote.root
    THEN [agg |-> agg, result |-> Err(UnexpectedVote(agg.root, vote.root))]
    ELSE IF ~(voting_power(vote.author) > 0)
    THEN [agg |-> agg, result |-> Err(UnknownWitness)]
    ELSE LET inserted == [agg EXCEPT !.used = @ \cup {vote.author}]
             checked == VerifyVote(vote)
             pushed == [inserted EXCEPT
                            !.votes = Append(@, << vote.author, vote.signature >>),
                            !.weight = @ + voting_power(vote.author)]
         IN  IF ~checked.ok THEN [agg |-> inserted, result |-> checked]
             ELSE IF pushed.weight >= quorum_threshold
             THEN [agg |-> [pushed EXCEPT !.weight = 0],
                   result |-> Ok(Some([root |-> vote.root,
                                       sequence_number |-> vote.sequence_number,
                                       votes |-> pushed.votes]))]
             ELSE [agg |-> pushed, result |-> Ok(None)]

\* Aggregator::append keeping the weight gathered once it returned a
\* certificate.
append_keeping_weight(agg, vote) ==
    IF agg.root # vote.root
    THEN [agg |-> agg, result |-> Err(UnexpectedVote(agg.root, vote.root))]
    ELSE IF ~(voting_power(vote.author) > 0)
    THEN [agg |-> agg, result |-> Err(UnknownWitness)]
    ELSE IF vote.author \in agg.used
    THEN [agg |-> agg, result |-> Err(WitnessReuse)]
    ELSE LET inserted == [agg EXCEPT !.used = @ \cup {vote.author}]
             checked == VerifyVote(vote)
             pushed == [inserted EXCEPT
                            !.votes = Append(@, << vote.author, vote.signature >>),
                            !.weight = @ + voting_power(vote.author)]
         IN  IF ~checked.ok THEN [agg |-> inserted, result |-> checked]
             ELSE IF pushed.weight >= quorum_threshold
             THEN [agg |-> pushed,
                   result |-> Ok(Some([root |-> vote.root,
                                       sequence_number |-> vote.sequence_number,
                                       votes |-> pushed.votes]))]
             ELSE [agg |-> pushed, result |-> Ok(None)]

\* Aggregator::append returning a certificate once the weight exceeds the
\* quorum threshold.
append_above_threshold(agg, vote) ==
    IF agg.root # vote.root
    THEN [agg |-> agg, result |-> Err(UnexpectedVote(agg.root, vote.root))]
    ELSE IF ~(voting_power(vote.author) > 0)
    THEN [agg |-> agg, result |-> Err(UnknownWitness)]
    ELSE IF vote.author \in agg.used
    THEN [agg |-> agg, result |-> Err(WitnessReuse)]
    ELSE LET inserted == [agg EXCEPT !.used = @ \cup {vote.author}]
             checked == VerifyVote(vote)
             pushed == [inserted EXCEPT
                            !.votes = Append(@, << vote.author, vote.signature >>),
                            !.weight = @ + voting_power(vote.author)]
         IN  IF ~checked.ok THEN [agg |-> inserted, result |-> checked]
             ELSE IF pushed.weight > quorum_threshold
             THEN [agg |-> [pushed EXCEPT !.weight = 0],
                   result |-> Ok(Some([root |-> vote.root,
                                       sequence_number |-> vote.sequence_number,
                                       votes |-> pushed.votes]))]
             ELSE [agg |-> pushed, result |-> Ok(None)]

\* Aggregator::append: the aggregator after the call and the result of the
\* call.  The author enters `used` before the vote is verified, so it stays
\* there when the verification fails.
append(agg, vote) ==
    IF agg.root # vote.root
    THEN [agg |-> agg, result |-> Err(UnexpectedVote(agg.root, vote.root))]
    ELSE IF ~(voting_power(vote.author) > 0)
    THEN [agg |-> agg, result |-> Err(UnknownWitness)]
    ELSE IF vote.author \in agg.used
    THEN [agg |-> agg, result |-> Err(WitnessReuse)]
    ELSE LET inserted == [agg EXCEPT !.used = @ \cup {vote.author}]
             checked == VerifyVote(vote)
             pushed == [inserted EXCEPT
                            !.votes = Append(@, << vote.author, vote.signature >>),
                            !.weight = @ + voting_power(vote.author)]
         IN  IF ~checked.ok THEN [agg |-> inserted, result |-> checked]
             ELSE IF pushed.weight >= quorum_threshold
             THEN [agg |-> [pushed EXCEPT !.weight = 0],
                   result |-> Ok(Some([root |-> vote.root,
                                       sequence_number |-> vote.sequence_number,
                                       votes |-> pushed.votes]))]
             ELSE [agg |-> pushed, result |-> Ok(None)]

\* The votes handed to the aggregator: by any witness or by an outsider, for
\* any root and sequence number, with a signature that verifies or not.
VoteInputs ==
    UNION { { [root |-> r, sequence_number |-> s, author |-> a,
               signature |-> Sign(digest([root |-> r, sequence_number |-> s]), k)] :
              r \in Roots, s \in SeqNums, k \in {a, IdpKey} } :
            a \in Witnesses \cup {Mallory} }

\* A caller resets the aggregator to a root.
AggregatorReset(root) ==
    /\ aggregator' = reset(aggregator, root)
    /\ returned' = None
    /\ emitted' = 0

\* A caller appends a vote.
AggregatorAppend(vote) ==
    /\ aggregator' = append(aggregator, vote).agg
    /\ returned' = Some(append(aggregator, vote).result)
    /\ emitted' = IF append(aggregator, vote).result.ok
                      /\ IsSome(Unwrap(append(aggregator, vote).result.val))
                   THEN emitted + 1
                   ELSE emitted

\* ------------------------------------------------------------------------
\* Calls of PublishCertificate::verify.

\* The keys that author the votes of the certificates verified.
Authors == Witnesses \cup {Mallory}

\* The certificate for ("R0", 0) whose i-th vote is by authors[i]; the
\* signature of vote number `bad` (if any) covers another digest, the others
\* are genuine.
VerifyInput(authors, bad) ==
    [root |-> "R0", sequence_number |-> 0,
     votes |-> [i \in 1..Len(authors) |->
                   << authors[i],
                      IF i = bad THEN Sign(OtherDigest("R0", 0), authors[i])
                      ELSE Sign(digest([root |-> "R0", sequence_number |-> 0]),
                                authors[i]) >>]]

\* PublishCertificate::verify is called on the certificate.
Verify ==
    /\ outcome = None
    /\ outcome' = Some(VerifyCertificate(certificate))
    /\ UNCHANGED certificate

\* ------------------------------------------------------------------------
\* The identity provider: batcher, prover, publisher.

\* Storage address of the last notification.
STORE_LAST_NOTIFICATION_ADDR == 255

EmptyIdpStorage == [a \in {STORE_LAST_NOTIFICATION_ADDR} |-> None]

\* The batch size of the test IdP (the number of test updates).
batch_size == 2

\* bincode::serialize(&notification)
SerializeNotification(n) == << n.root, n.proof, n.sequence_number, n.id, n.signature >>

\* bincode::deserialize::<PublishNotification>(&bytes)
DeserializeNotification(bytes) ==
    IF Len(bytes) = 5
    THEN Some([root |-> bytes[1], proof |-> bytes[2], sequence_number |-> bytes[3],
               id |-> bytes[4], signature |-> bytes[5]])
    ELSE None

\* The client updates received: too short, two bytes, and well formed.
Updates == { << 65 >>, << 65, 66 >>, << 65, 65, 44, 66, 66 >> }

\* The i-th element of bytes.chunks(k), None past the end.
Chunk(bytes, k, i) ==
    IF (i - 1) * k < Len(bytes)
    THEN Some(SubSeq(bytes, (i - 1) * k + 1,
                     IF i * k < Len(bytes) THEN i * k ELSE Len(bytes)))
    ELSE None

\* The outcome of a task that panics.
Panic == Err(Error("panic", 0, 0, "", ""))

\* Batcher::deserialize: key and value are the first two chunks of two
\* bytes; unwrapping a missing second chunk panics.
deserialize(bytes) ==
    IF Len(bytes) < 2 THEN Err(InvalidRequest)
    ELSE IF ~IsSome(Chunk(bytes, 2, 2)) THEN Panic
    ELSE Ok(<< Unwrap(Chunk(bytes, 2, 1)), Unwrap(Chunk(bytes, 2, 2)) >>)

\* The root of the key directory at an epoch (akd, a black box).
AkdRoots == << "R1", "R2", "R3", "R4", "R5", "R6", "R7", "R8" >>

get_root_hash_at_epoch(epoch) ==
    IF epoch \in 1..Len(akd) THEN Some(AkdRoots[epoch]) ELSE None

\* The audit proof between two epochs.
audit(current, next) == << current, next >>

batcher_vars == << submitted, valid_updates, current_batch, current_batch_size, decoded >>

publisher_vars == << idp_storage, serialized, round, waiting, sync_handles, broadcasts >>

\* Batcher::run, request branch: the handling of one client request.
BatcherRequest(u) ==
    /\ idp_pc.batcher = "run"
    /\ submitted' = submitted + 1
    /\ LET update == deserialize(u)
           size == current_batch_size + 1
           batch == Append(current_batch, Unwrap(update.val))
       IN  IF update = Panic
           THEN /\ idp_pc' = [idp_pc EXCEPT !.batcher = "panicked"]
                /\ UNCHANGED << valid_updates, decoded, current_batch,
                                current_batch_size, rx_batch >>
           ELSE IF ~update.ok
           THEN UNCHANGED << idp_pc, valid_updates, decoded, current_batch,
                            current_batch_size, rx_batch >>
           ELSE /\ valid_updates' = valid_updates + 1
                /\ decoded' = Append(decoded, Unwrap(update.val))
                /\ IF size >= batch_size
                   THEN /\ current_batch_size' = 0
                        /\ current_batch' = << >>
                        /\ rx_batch' = Append(rx_batch, batch)
                   ELSE /\ current_batch_size' = size
                        /\ current_batch' = batch
                        /\ UNCHANGED rx_batch
                /\ UNCHANGED idp_pc
    /\ UNCHANGED << prover_seq, akd, built, rx_notification, publisher_vars, restored,
                    crashes, aggregator, nvars >>

\* Batcher::run, request branch: a client update is received.
BatcherRecv(u) ==
    /\ submitted < MaxUpdates
    /\ BatcherRequest(u)

\* A timer branch that seals the batch whether or not it is empty.
BatcherTimerAlways ==
    /\ idp_pc.batcher = "run"
    /\ current_batch_size' = 0
    /\ current_batch' = << >>
    /\ rx_batch' = Append(rx_batch, current_batch)
    /\ UNCHANGED << idp_pc, submitted, valid_updates, decoded, prover_seq, akd, built,
                    rx_notification, publisher_vars, restored, crashes, aggregator, nvars >>

\* Batcher::run, timer branch: a non-empty batch is sealed.
BatcherTimer ==
    /\ idp_pc.batcher = "run"
    /\ current_batch # << >>
    /\ current_batch_size' = 0
    /\ current_batch' = << >>
    /\ rx_batch' = Append(rx_batch, current_batch)
    /\ UNCHANGED << idp_pc, submitted, valid_updates, decoded, prover_seq, akd, built,
                    rx_notification, publisher_vars, restored, crashes, aggregator, nvars >>

\* A prover that takes the batch sealed last rather than the one sealed first.
ProverPublishNewest ==
    /\ idp_pc.prover = "run"
    /\ rx_batch # << >>
    /\ akd' = Append(akd, rx_batch[Len(rx_batch)])
    /\ rx_batch' = SubSeq(rx_batch, 1, Len(rx_batch) - 1)
    /\ idp_pc' = [idp_pc EXCEPT !.prover = "proving"]
    /\ UNCHANGED << batcher_vars, prover_seq, built, rx_notification, publisher_vars,
                    restored, crashes, aggregator, nvars >>

\* Prover::make_proof: the batch is published to the key directory.
ProverPublish ==
    /\ idp_pc.prover = "run"
    /\ rx_batch # << >>
    /\ akd' = Append(akd, Head(rx_batch))
    /\ rx_batch' = Tail(rx_batch)
    /\ idp_pc' = [idp_pc EXCEPT !.prover = "proving"]
    /\ UNCHANGED << batcher_vars, prover_seq, built, rx_notification, publisher_vars,
                    restored, crashes, aggregator, nvars >>

\* Prover::run handing its notification to the publisher ahead of those that
\* wait in the channel.
ProverNotifyUnordered ==
    /\ idp_pc.prover = "proving"
    /\ LET next == prover_seq + 1
           root == get_root_hash_at_epoch(next)
           notification == NewNotification(Unwrap(root), audit(prover_seq, next),
                                           next, IdpKey)
       IN  IF ~IsSome(root)
           THEN /\ idp_pc' = [idp_pc EXCEPT !.prover = "panicked"]
                /\ UNCHANGED << prover_seq, rx_notification, built >>
           ELSE /\ prover_seq' = next
                /\ rx_notification' = << notification >> \o rx_notification
                /\ built' = Append(built, notification)
                /\ idp_pc' = [idp_pc EXCEPT !.prover = "run"]
    /\ UNCHANGED << batcher_vars, rx_batch, akd, publisher_vars, restored, crashes,
                    aggregator, nvars >>

\* Prover::make_proof and Prover::run: root and proof for the next epoch, the
\* sequence number is incremented, the notification is built and sent.
ProverNotify ==
    /\ idp_pc.prover = "proving"
    /\ LET next == prover_seq + 1
           root == get_root_hash_at_epoch(next)
           notification == NewNotification(Unwrap(root), audit(prover_seq, next),
                                           next, IdpKey)
       IN  IF ~IsSome(root)
           THEN /\ idp_pc' = [idp_pc EXCEPT !.prover = "panicked"]
                /\ UNCHANGED << prover_seq, rx_notification, built >>
           ELSE /\ prover_seq' = next
                /\ rx_notification' = Append(rx_notification, notification)
                /\ built' = Append(built, notification)
                /\ idp_pc' = [idp_pc EXCEPT !.prover = "run"]
    /\ UNCHANGED << batcher_vars, rx_batch, akd, publisher_vars, restored, crashes,
                    aggregator, nvars >>

\* Publisher::run taking a notification without persisting it.
PublisherReceiveUnpersisted ==
    /\ idp_pc.publisher = "idle"
    /\ rx_notification # << >>
    /\ rx_notification' = Tail(rx_notification)
    /\ serialized' = Some(SerializeNotification(Head(rx_notification)))
    /\ idp_pc' = [idp_pc EXCEPT !.publisher = "broadcast"]
    /\ UNCHANGED << batcher_vars, rx_batch, prover_seq, akd, built, round, waiting,
                    sync_handles, broadcasts, restored, crashes, aggregator, nvars,
                    idp_storage >>

\* Publisher::run, notification branch: the notification is persisted.
PublisherReceive ==
    /\ idp_pc.publisher = "idle"
    /\ rx_notification # << >>
    /\ rx_notification' = Tail(rx_notification)
    /\ serialized' = Some(SerializeNotification(Head(rx_notification)))
    /\ idp_storage' = [idp_storage EXCEPT ![STORE_LAST_NOTIFICATION_ADDR] =
                           Some(SerializeNotification(Head(rx_notification)))]
    /\ idp_pc' = [idp_pc EXCEPT !.publisher = "broadcast"]
    /\ UNCHANGED << batcher_vars, rx_batch, prover_seq, akd, built, round, waiting,
                    sync_handles, broadcasts, restored, crashes, aggregator, nvars >>

\* Publisher::run: the notification is broadcast to the witnesses.
PublisherBroadcast ==
    /\ idp_pc.publisher = "broadcast"
    /\ LET n == Unwrap(DeserializeNotification(Unwrap(serialized)))
       IN  /\ inbox' = [w \in Witnesses |->
                           Append(inbox[w], [kind |-> "notification", msg |-> n,
                                             round |-> round + 1])]
           /\ broadcasts' = Append(broadcasts, n)
    /\ round' = round + 1
    /\ waiting' = Witnesses
    /\ handles' = [w \in Witnesses |-> None]
    /\ sync_handles' = 0
    /\ idp_pc' = [idp_pc EXCEPT !.publisher = "collect"]
    /\ UNCHANGED << batcher_vars, rx_batch, prover_seq, akd, built, rx_notification,
                    idp_storage, serialized, restored, crashes, aggregator, serving >>

\* Publisher::handle_notification_reply: the vote of the reply if any, and
\* whether a handle returned by sync joins the awaited replies.
handle_notification_reply(r) ==
    IF r.kind # "PublishVote"
    THEN [result |-> Err(UnexpectedProtocolMessage), synced |-> FALSE]
    ELSE IF r.result.ok
    THEN [result |-> Ok(r.result.val), synced |-> FALSE]
    ELSE IF /\ r.result.err.name = "UnexpectedSequenceNumber"
            /\ r.result.err.expected < r.result.err.got
    THEN [result |-> Ok(None), synced |-> TRUE]
    ELSE [result |-> Err(r.result.err), synced |-> FALSE]

\* Publisher::run collecting the votes without leaving the loop once a
\* certificate was broadcast.
PublisherCollectGoingOn(w) ==
    /\ idp_pc.publisher = "collect"
    /\ w \in waiting
    /\ IsSome(handles[w])
    /\ LET h == handle_notification_reply(Unwrap(handles[w]))
           has_vote == h.result.ok /\ IsSome(Unwrap(h.result.val))
           appended == append(aggregator, Unwrap(Unwrap(h.result.val)))
           has_certificate ==
               has_vote /\ appended.result.ok /\ IsSome(Unwrap(appended.result.val))
           left == waiting \ {w}
           syncs == sync_handles + (IF h.synced THEN 1 ELSE 0)
       IN  IF has_certificate
           THEN /\ inbox' = [x \in Witnesses |->
                                Append(inbox[x],
                                       [kind |-> "certificate",
                                        msg |-> Unwrap(Unwrap(appended.result.val)),
                                        round |-> round])]
                /\ aggregator' = clear(appended.agg)
                /\ waiting' = left
                /\ handles' = [handles EXCEPT ![w] = None]
                /\ sync_handles' = syncs
                /\ IF left = {} /\ syncs = 0
                   THEN /\ serialized' = None
                        /\ idp_pc' = [idp_pc EXCEPT !.publisher = "idle"]
                   ELSE UNCHANGED << serialized, idp_pc >>
           ELSE /\ aggregator' = IF has_vote THEN appended.agg ELSE aggregator
                /\ UNCHANGED inbox
                /\ IF left = {} /\ syncs = 0
                   THEN /\ waiting' = {}
                        /\ handles' = [x \in Witnesses |-> None]
                        /\ sync_handles' = 0
                        /\ serialized' = None
                        /\ idp_pc' = [idp_pc EXCEPT !.publisher = "idle"]
                   ELSE /\ waiting' = left
                        /\ handles' = [handles EXCEPT ![w] = None]
                        /\ sync_handles' = syncs
                        /\ UNCHANGED << serialized, idp_pc >>
    /\ UNCHANGED << batcher_vars, rx_batch, prover_seq, akd, built, rx_notification,
                    idp_storage, round, broadcasts, restored, crashes, serving >>

\* Publisher::run, collection of the votes: the reply of witness w is handled;
\* a vote goes to the aggregator, a certificate is broadcast and ends the
\* collection, which also ends when nothing is awaited any more.
PublisherCollect(w) ==
    /\ idp_pc.publisher = "collect"
    /\ w \in waiting
    /\ IsSome(handles[w])
    /\ LET h == handle_notification_reply(Unwrap(handles[w]))
           has_vote == h.result.ok /\ IsSome(Unwrap(h.result.val))
           appended == append(aggregator, Unwrap(Unwrap(h.result.val)))
           has_certificate ==
               has_vote /\ appended.result.ok /\ IsSome(Unwrap(appended.result.val))
           left == waiting \ {w}
           syncs == sync_handles + (IF h.synced THEN 1 ELSE 0)
       IN  IF has_certificate
           THEN /\ inbox' = [x \in Witnesses |->
                                Append(inbox[x],
                                       [kind |-> "certificate",
                                        msg |-> Unwrap(Unwrap(appended.result.val)),
                                        round |-> round])]
                /\ aggregator' = clear(appended.agg)
                /\ waiting' = {}
                /\ handles' = [x \in Witnesses |-> None]
                /\ sync_handles' = 0
                /\ serialized' = None
                /\ idp_pc' = [idp_pc EXCEPT !.publisher = "idle"]
           ELSE /\ aggregator' = IF has_vote THEN appended.agg ELSE aggregator
                /\ UNCHANGED inbox
                /\ IF left = {} /\ syncs = 0
                   THEN /\ waiting' = {}
                        /\ handles' = [x \in Witnesses |-> None]
                        /\ sync_handles' = 0
                        /\ serialized' = None
                        /\ idp_pc' = [idp_pc EXCEPT !.publisher = "idle"]
                   ELSE /\ waiting' = left
                        /\ handles' = [handles EXCEPT ![w] = None]
                        /\ sync_handles' = syncs
                        /\ UNCHANGED << serialized, idp_pc >>
    /\ UNCHANGED << batcher_vars, rx_batch, prover_seq, akd, built, rx_notification,
                    idp_storage, round, broadcasts, restored, crashes, serving >>

\* Publisher::run: a handle returned by Publisher::sync resolves.  Its sender
\* is dropped when sync returns, the handle yields an error and the publisher
\* panics on it.
PublisherSyncFailure ==
    /\ idp_pc.publisher = "collect"
    /\ sync_handles > 0
    /\ idp_pc' = [idp_pc EXCEPT !.publisher = "panicked"]
    /\ UNCHANGED << batcher_vars, rx_batch, prover_seq, akd, built, rx_notification,
                    publisher_vars, restored, crashes, aggregator, nvars >>

\* Prover::initialize without the re-emission of the persisted notification.
initialize_without_resend(st) ==
    LET bytes == st[STORE_LAST_NOTIFICATION_ADDR]
    IN  IF ~IsSome(bytes)
        THEN [sequence_number |-> 0, sent |-> << >>, panicked |-> FALSE]
        ELSE IF ~IsSome(DeserializeNotification(Unwrap(bytes)))
        THEN [sequence_number |-> 0, sent |-> << >>, panicked |-> TRUE]
        ELSE [sequence_number |->
                  Unwrap(DeserializeNotification(Unwrap(bytes))).sequence_number,
              sent |-> << >>, panicked |-> FALSE]

\* Prover::initialize: the sequence number the prover starts from and what it
\* sends to the publisher.
initialize(st) ==
    LET bytes == st[STORE_LAST_NOTIFICATION_ADDR]
    IN  IF ~IsSome(bytes)
        THEN [sequence_number |-> 0, sent |-> << >>, panicked |-> FALSE]
        ELSE IF ~IsSome(DeserializeNotification(Unwrap(bytes)))
        THEN [sequence_number |-> 0, sent |-> << >>, panicked |-> TRUE]
        ELSE [sequence_number |->
                  Unwrap(DeserializeNotification(Unwrap(bytes))).sequence_number,
              sent |-> DeserializeNotification(Unwrap(bytes)), panicked |-> FALSE]

\* The roots the publisher's aggregator can be created for.
AggregatorRoots == {"R0", "R1", "R2"}

\* The IdP process starts on its storage: Prover::spawn (initialize),
\* Batcher::spawn, Publisher::spawn.
IdpStart ==
    /\ LET init == initialize(idp_storage)
       IN  /\ prover_seq' = init.sequence_number
           /\ rx_notification' = init.sent
           /\ idp_pc' = [batcher |-> "run",
                         prover |-> IF init.panicked THEN "panicked" ELSE "run",
                         publisher |-> "idle"]
    /\ restored' = idp_storage[STORE_LAST_NOTIFICATION_ADDR]
    /\ aggregator' \in { AggregatorNew(r) : r \in AggregatorRoots }
    /\ current_batch' = << >>
    /\ current_batch_size' = 0
    /\ rx_batch' = << >>
    /\ serialized' = None
    /\ waiting' = {}
    /\ sync_handles' = 0
    /\ broadcasts' = << >>
    /\ built' = << >>
    /\ handles' = [w \in Witnesses |-> None]
    /\ UNCHANGED << submitted, valid_updates, decoded, akd, idp_storage, round, crashes,
                    inbox, serving >>

\* The IdP process stops at any point: its memory is lost, its storage and the
\* key directory are not; what it sent stays on its way.
IdpCrash ==
    /\ idp_pc.prover # "down"
    /\ crashes < MaxCrashes
    /\ crashes' = crashes + 1
    /\ idp_pc' = [batcher |-> "down", prover |-> "down", publisher |-> "down"]
    /\ prover_seq' = 0
    /\ rx_notification' = << >>
    /\ restored' = None
    /\ aggregator' = AggregatorNew("R0")
    /\ current_batch' = << >>
    /\ current_batch_size' = 0
    /\ rx_batch' = << >>
    /\ serialized' = None
    /\ waiting' = {}
    /\ sync_handles' = 0
    /\ broadcasts' = << >>
    /\ built' = << >>
    /\ handles' = [w \in Witnesses |-> None]
    /\ UNCHANGED << submitted, valid_updates, decoded, akd, idp_storage, round, inbox,
                    serving >>

\* The IdP process is started again.
IdpRestart ==
    /\ idp_pc.prover = "down"
    /\ IdpStart

\* ------------------------------------------------------------------------
\* The network between the publisher and the witnesses.

\* The reply r of witness w to a message of broadcast number rnd reaches its
\* handle, unless the publisher dropped the handle.
Resolve(w, rnd, r) ==
    handles' = IF rnd = round /\ idp_pc.publisher = "collect" /\ w \in waiting
               THEN [handles EXCEPT ![w] = Some(r)]
               ELSE handles

\* What a witness outside the model can reply to a notification: its vote
\* (as the listener of the tests does), that it is behind or ahead, that it
\* is locked on another root, or a message of another type.
EnvReplies(w, n) ==
    { PublishVoteReply(Ok(NewVote(n, w))),
      PublishVoteReply(Err(UnexpectedSequenceNumber(n.sequence_number + 1,
                                                    n.sequence_number))),
      PublishVoteReply(Err(UnexpectedSequenceNumber(n.sequence_number,
                                                    n.sequence_number))),
      PublishVoteReply(Err(ConflictingNotification("R0", n.root))),
      StateReply(Err(MissingEarlierCertificates(n.sequence_number))) }
    \cup { PublishVoteReply(Err(UnexpectedSequenceNumber(e, n.sequence_number))) :
           e \in {n.sequence_number - 1} \cap Nat }

\* A witness outside the model takes the messages sent to it and replies to
\* the notification being broadcast.  The replies arrive in the order of the
\* keys, and the publisher handles one reply before the next one arrives.
EnvWitness(w) ==
    /\ idp_pc.publisher = "collect"
    /\ \A x \in Witnesses : handles[x] = None
    /\ \E i \in 1..Len(CommitteeOrder) :
           /\ CommitteeOrder[i] = w
           /\ \A j \in 1..(i - 1) : CommitteeOrder[j] \notin waiting
    /\ \E r \in EnvReplies(w, broadcasts[Len(broadcasts)]) : Resolve(w, round, r)
    /\ handles' # handles
    /\ inbox' = [inbox EXCEPT ![w] = << >>]
    /\ UNCHANGED serving

\* A witness of the model takes the next message sent to it; an error is
\* replied at once, a vote after the lock is persisted.
WitnessReceive(w) ==
    /\ inbox[w] # << >>
    /\ inbox' = [inbox EXCEPT ![w] = Tail(@)]
    /\ IF Head(inbox[w]).kind = "notification"
       THEN /\ RecvNotification(w, Head(inbox[w]).msg)
            /\ IF pc'[w] = "idle"
               THEN /\ Resolve(w, Head(inbox[w]).round, Unwrap(reply'[w]))
                    /\ UNCHANGED serving
               ELSE /\ serving' = [serving EXCEPT ![w] = Head(inbox[w]).round]
                    /\ UNCHANGED handles
       ELSE /\ RecvCertificate(w, Head(inbox[w]).msg)
            /\ UNCHANGED << handles, serving >>

\* A witness of the model goes on with the message it handles.
WitnessContinue(w) ==
    \/ /\ ReplyVote(w)
       /\ Resolve(w, serving[w], Unwrap(reply'[w]))
       /\ UNCHANGED << inbox, serving >>
    \/ /\ ClearLock(w)
       /\ UNCHANGED nvars
    \/ /\ ReplyState(w)
       /\ UNCHANGED nvars

\* ------------------------------------------------------------------------
\* Calls of PublishNotification::verify.

\* The notifications verified: built by PublishNotification::new, or with an
\* id that is not the digest, or with a signature by another key or over
\* another value than the id.
NotificationInputs ==
    UNION { { [NewNotification(r, p, s, IdpKey) EXCEPT
                   !.id = i, !.signature = Sign(d, k)] :
              i \in { digest([root |-> r, sequence_number |-> s]), OtherDigest(r, s) },
              d \in { digest([root |-> r, sequence_number |-> s]), OtherDigest(r, s) },
              k \in { IdpKey, Mallory, "w1" } } :
            r \in Roots, p \in Proofs, s \in SeqNums }

\* PublishNotification::verify is called on the notification.
VerifyNotificationCall ==
    /\ notified = None
    /\ notified' = Some(VerifyNotification(presented))
    /\ UNCHANGED presented

\* ------------------------------------------------------------------------
\* The sync helper of a witness (witness/src/sync_helper.rs) and the
\* dispatch of a certificate query to it (witness/src/lib.rs).

\* The keys of the audit storage read by the helper: sequence_number.to_le_bytes().
AuditKeys == { to_le_bytes(k) : k \in 0..(MaxSeq + 1) }

\* An audit storage in which nothing was written.
EmptyAudit == [a \in AuditKeys |-> None]

\* bincode::serialize(&certificate)
SerializeCertificate(c) == << c.root, c.sequence_number, c.votes >>

\* bincode::deserialize::<PublishCertificate>(&bytes)
DeserializeCertificate(bytes) ==
    IF Len(bytes) = 3
    THEN Some([root |-> bytes[1], sequence_number |-> bytes[2], votes |-> bytes[3]])
    ELSE None

\* WitnessToIdPMessage::PublishCertificateResponse(bytes)
PublishCertificateResponse(bytes) ==
    [kind |-> "PublishCertificateResponse", bytes |-> bytes]

\* SyncHelper::run on one request: the reply sent, None when the helper drops
\* the replier without sending.
helper_reply(st, seq) ==
    IF IsSome(StorageRead(st, to_le_bytes(seq)))
    THEN Some(PublishCertificateResponse(Unwrap(StorageRead(st, to_le_bytes(seq)))))
    ELSE None

\* WitnessHandler::dispatch of a PublishCertificateQuery: the request goes to
\* the helper and the reply is awaited; a replier dropped without a reply
\* makes the await fail and the connection task panic, nothing is written
\* back to the IdP.  The helper task itself goes on.
CertificateQuery(w, seq) ==
    /\ queried' = [queried EXCEPT ![w] =
                       Some([sequence_number |-> seq,
                             witness_sequence_number |->
                                 IF w \in tracked THEN sequence_number[w] ELSE 0,
                             handler |-> IF w \in tracked THEN pc[w] ELSE "idle"])]
    /\ answer' = [answer EXCEPT ![w] =
                      IF IsSome(helper_reply(audit_storage[w], seq))
                      THEN Some(Ok(Unwrap(helper_reply(audit_storage[w], seq))))
                      ELSE Some(Panic)]
    /\ UNCHANGED audit_storage

\* ------------------------------------------------------------------------
\* Initial states of the parts.

InitVerifyIdle ==
    /\ certificate = VerifyInput(<< >>, 0)
    /\ outcome = None

InitAggregatorIdle ==
    /\ aggregator = AggregatorNew("R0")
    /\ returned = None
    /\ emitted = 0

InitNetwork ==
    /\ inbox = [w \in Witnesses |-> << >>]
    /\ handles = [w \in Witnesses |-> None]
    /\ serving = [w \in Witnesses |-> 0]

\* No notification verified.
InitNotificationIdle ==
    /\ presented = NewNotification("R0", "P0", 0, IdpKey)
    /\ notified = None

\* Sync helpers on empty audit storages, no query received.
InitHelpers ==
    /\ audit_storage = [w \in Witnesses |-> EmptyAudit]
    /\ queried = [w \in Witnesses |-> None]
    /\ answer = [w \in Witnesses |-> None]

\* No IdP.
InitIdpIdle ==
    /\ idp_pc = [batcher |-> "down", prover |-> "down", publisher |-> "down"]
    /\ submitted = 0
    /\ valid_updates = 0
    /\ decoded = << >>
    /\ current_batch = << >>
    /\ current_batch_size = 0
    /\ rx_batch = << >>
    /\ prover_seq = 0
    /\ akd = << >>
    /\ rx_notification = << >>
    /\ idp_storage = EmptyIdpStorage
    /\ serialized = None
    /\ round = 0
    /\ waiting = {}
    /\ sync_handles = 0
    /\ broadcasts = << >>
    /\ built = << >>
    /\ restored = None
    /\ crashes = 0

\* An IdP started on an empty storage and an empty key directory.
InitIdp ==
    /\ idp_pc = [batcher |-> "run", prover |-> "run", publisher |-> "idle"]
    /\ submitted = 0
    /\ valid_updates = 0
    /\ decoded = << >>
    /\ current_batch = << >>
    /\ current_batch_size = 0
    /\ rx_batch = << >>
    /\ prover_seq = initialize(EmptyIdpStorage).sequence_number
    /\ akd = << >>
    /\ rx_notification = initialize(EmptyIdpStorage).sent
    /\ idp_storage = EmptyIdpStorage
    /\ serialized = None
    /\ round = 0
    /\ waiting = {}
    /\ sync_handles = 0
    /\ broadcasts = << >>
    /\ built = << >>
    /\ restored = None
    /\ crashes = 0
    /\ aggregator \in { AggregatorNew(r) : r \in AggregatorRoots }
    /\ returned = None
    /\ emitted = 0

vars == << cvars, wvars, vvars, avars, pvars, nvars, mvars, hvars >>

\* ------------------------------------------------------------------------
\* One witness facing an arbitrary IdP and arbitrary other witnesses.

nonwitness == << cvars, vvars, avars, pvars, nvars, mvars, hvars >>

Init ==
    /\ committee = TestCommittee
    /\ InitWitnesses({"w1"})
    /\ InitVerifyIdle
    /\ InitAggregatorIdle
    /\ InitIdpIdle
    /\ InitNetwork
    /\ InitNotificationIdle
    /\ InitHelpers

Next ==
    \/ \E w \in tracked, n \in Notifications :
           RecvNotification(w, n) /\ UNCHANGED nonwitness
    \/ \E w \in tracked : ReplyVote(w) /\ UNCHANGED nonwitness
    \/ \E w \in tracked, r \in Roots, s \in SeqNums, a \in AuthorLists :
           RecvCertificate(w, Certificate(r, s, a)) /\ UNCHANGED nonwitness
    \/ \E w \in tracked : ClearLock(w) /\ UNCHANGED nonwitness
    \/ \E w \in tracked : ReplyState(w) /\ UNCHANGED nonwitness
    \/ \E w \in tracked : StateQuery(w) /\ UNCHANGED nonwitness
    \/ \E w \in tracked : Crash(w) /\ UNCHANGED nonwitness
    \/ \E w \in tracked : Restart(w) /\ UNCHANGED nonwitness

Spec == Init /\ [][Next]_vars

\* ------------------------------------------------------------------------
\* Three witnesses that run the handler and one that does not (voting power
\* 1 of 4, the most a committee of total power 4 tolerates), facing an IdP
\* that sends any notification to any witness.

\* The notifications of the IdP: one for each root, both for the sequence
\* number of freshly spawned handlers.
CommitteeNotifications == { NewNotification(r, "P0", 0, IdpKey) : r \in Roots }

\* The members of S, as an author list in the given order.
RECURSIVE ListOf(_, _)
ListOf(S, order) ==
    IF order = << >> THEN << >>
    ELSE (IF Head(order) \in S THEN << Head(order) >> ELSE << >>)
         \o ListOf(S, Tail(order))

\* The author lists of the certificates sent to the witnesses: the whole
\* committee, a quorum and less than a quorum.
CommitteeAuthorLists ==
    { CommitteeOrder, << "w1", "w2", "w4" >>, << "w3", "w4" >> }

InitCommittee ==
    /\ committee = TestCommittee
    /\ InitWitnesses({"w1", "w2", "w3"})
    /\ InitVerifyIdle
    /\ InitAggregatorIdle
    /\ InitIdpIdle
    /\ InitNetwork
    /\ InitNotificationIdle
    /\ InitHelpers

NextCommittee ==
    \/ \E w \in tracked, n \in CommitteeNotifications :
           RecvNotification(w, n) /\ UNCHANGED nonwitness
    \/ \E w \in tracked : ReplyVote(w) /\ UNCHANGED nonwitness
    \/ \E w \in tracked, r \in Roots, a \in CommitteeAuthorLists :
           RecvCertificate(w, Certificate(r, 0, a)) /\ UNCHANGED nonwitness
    \/ \E w \in tracked : ClearLock(w) /\ UNCHANGED nonwitness
    \/ \E w \in tracked : ReplyState(w) /\ UNCHANGED nonwitness

SpecCommittee == InitCommittee /\ [][NextCommittee]_vars

\* ------------------------------------------------------------------------
\* PublishCertificate::verify called on any certificate, for any committee.

InitVerify ==
    /\ committee \in Committees
    /\ \E n \in 0..MaxVotes :
           \E authors \in [1..n -> Authors], bad \in 0..n :
               certificate = VerifyInput(authors, bad)
    /\ outcome = None
    /\ InitWitnesses({})
    /\ InitAggregatorIdle
    /\ InitIdpIdle
    /\ InitNetwork
    /\ InitNotificationIdle
    /\ InitHelpers

NextVerify == Verify /\ UNCHANGED << cvars, wvars, avars, pvars, nvars, mvars, hvars >>

SpecVerify == InitVerify /\ [][NextVerify]_vars

\* ------------------------------------------------------------------------
\* The aggregator under any sequence of calls of reset and append.

InitAggregator ==
    /\ committee \in Committees
    /\ aggregator = AggregatorNew("R0")
    /\ returned = None
    /\ emitted = 0
    /\ InitWitnesses({})
    /\ InitVerifyIdle
    /\ InitIdpIdle
    /\ InitNetwork
    /\ InitNotificationIdle
    /\ InitHelpers

NextAggregator ==
    \/ \E root \in Roots :
           AggregatorReset(root)
           /\ UNCHANGED << cvars, wvars, vvars, pvars, nvars, mvars, hvars >>
    \/ \E vote \in VoteInputs :
           AggregatorAppend(vote)
           /\ UNCHANGED << cvars, wvars, vvars, pvars, nvars, mvars, hvars >>

SpecAggregator == InitAggregator /\ [][NextAggregator]_vars

\* ------------------------------------------------------------------------
\* The IdP, stopping and starting again, with witnesses that reply anything.

nonidp == << cvars, wvars, vvars, returned, emitted, mvars, hvars >>

InitIdpAlone ==
    /\ committee = TestCommittee
    /\ InitWitnesses({})
    /\ InitVerifyIdle
    /\ InitIdp
    /\ InitNetwork
    /\ InitNotificationIdle
    /\ InitHelpers

NextIdp ==
    \/ \E u \in Updates : BatcherRecv(u) /\ UNCHANGED nonidp
    \/ BatcherTimer /\ UNCHANGED nonidp
    \/ ProverPublish /\ UNCHANGED nonidp
    \/ ProverNotify /\ UNCHANGED nonidp
    \/ PublisherReceive /\ UNCHANGED nonidp
    \/ PublisherBroadcast /\ UNCHANGED nonidp
    \/ \E w \in Witnesses : PublisherCollect(w) /\ UNCHANGED nonidp
    \/ PublisherSyncFailure /\ UNCHANGED nonidp
    \/ \E w \in Witnesses : EnvWitness(w) /\ UNCHANGED << nonidp, pvars, aggregator >>
    \/ IdpCrash /\ UNCHANGED nonidp
    \/ IdpRestart /\ UNCHANGED nonidp

\* The publisher is scheduled: it takes the notification that waits in its
\* channel and broadcasts it.
FairIdp ==
    /\ WF_vars(PublisherReceive /\ UNCHANGED nonidp)
    /\ WF_vars(PublisherBroadcast /\ UNCHANGED nonidp)

SpecIdp == InitIdpAlone /\ [][NextIdp]_vars /\ FairIdp

\* ------------------------------------------------------------------------
\* The IdP and the four witnesses, all freshly started, none stopping; every
\* task that can take a step eventually takes one.

InitEndToEnd ==
    /\ committee = TestCommittee
    /\ InitWitnesses(Witnesses)
    /\ InitVerifyIdle
    /\ InitIdp
    /\ InitNetwork
    /\ InitNotificationIdle
    /\ InitHelpers

nonpipeline == << cvars, vvars, returned, emitted, mvars, hvars >>

ClientStep == \E u \in Updates : BatcherRecv(u) /\ UNCHANGED << nonpipeline, wvars >>

BatcherStep == BatcherTimer /\ UNCHANGED << nonpipeline, wvars >>

ProverStep == (ProverPublish \/ ProverNotify) /\ UNCHANGED << nonpipeline, wvars >>

PublisherStep ==
    /\ \/ PublisherReceive
       \/ PublisherBroadcast
       \/ \E w \in Witnesses : PublisherCollect(w)
       \/ PublisherSyncFailure
    /\ UNCHANGED << nonpipeline, wvars >>

WitnessStep(w) ==
    /\ WitnessReceive(w) \/ WitnessContinue(w)
    /\ UNCHANGED << nonpipeline, pvars, aggregator >>

NextEndToEnd ==
    \/ ClientStep
    \/ BatcherStep
    \/ ProverStep
    \/ PublisherStep
    \/ \E w \in Witnesses : WitnessStep(w)

FairEndToEnd ==
    /\ WF_vars(BatcherStep)
    /\ WF_vars(ProverStep)
    /\ WF_vars(PublisherStep)
    /\ \A w \in Witnesses : WF_vars(WitnessStep(w))

SpecEndToEnd == InitEndToEnd /\ [][NextEndToEnd]_vars /\ FairEndToEnd

\* ------------------------------------------------------------------------
\* PublishNotification::verify called on any notification.

InitNotification ==
    /\ committee = TestCommittee
    /\ presented \in NotificationInputs
    /\ notified = None
    /\ InitWitnesses({})
    /\ InitVerifyIdle
    /\ InitAggregatorIdle
    /\ InitIdpIdle
    /\ InitNetwork
    /\ InitHelpers

NextNotification ==
    VerifyNotificationCall
    /\ UNCHANGED << cvars, wvars, vvars, avars, pvars, nvars, hvars >>

SpecNotification == InitNotification /\ [][NextNotification]_vars

\* ------------------------------------------------------------------------
\* One witness with its sync helper, facing an IdP that sends valid
\* notifications, certificates and certificate queries in any order.

SyncAuthorLists == { CommitteeOrder, << "w1", "w2" >> }

InitSync ==
    /\ committee = TestCommittee
    /\ InitWitnesses({"w1"})
    /\ InitVerifyIdle
    /\ InitAggregatorIdle
    /\ InitIdpIdle
    /\ InitNetwork
    /\ InitNotificationIdle
    /\ InitHelpers

nonsync == << cvars, vvars, avars, pvars, nvars, mvars >>

NextSync ==
    \/ \E w \in tracked, n \in ValidNotifications :
           RecvNotification(w, n) /\ UNCHANGED << nonsync, hvars >>
    \/ \E w \in tracked : ReplyVote(w) /\ UNCHANGED << nonsync, hvars >>
    \/ \E w \in tracked, r \in Roots, s \in SeqNums, a \in SyncAuthorLists :
           RecvCertificate(w, Certificate(r, s, a)) /\ UNCHANGED << nonsync, hvars >>
    \/ \E w \in tracked : ClearLock(w) /\ UNCHANGED << nonsync, hvars >>
    \/ \E w \in tracked : ReplyState(w) /\ UNCHANGED << nonsync, hvars >>
    \/ \E w \in tracked, k \in 0..(MaxSeq + 1) :
           CertificateQuery(w, k) /\ UNCHANGED << nonsync, wvars >>

SpecSync == InitSync /\ [][NextSync]_vars

\* ------------------------------------------------------------------------
\* A witness that lags behind: the IdP and four witnesses, three of which
\* were started on storages left by the finalization of the certificate of
\* sequence number 0, which their audit storages hold; the fourth is fresh.

\* The witnesses that finalized the certificate of sequence number 0.
Advanced == {"w1", "w2", "w3"}

\* The notification of sequence number 0 and the votes of the advanced
\* witnesses for it.
FirstNotification == NewNotification("R0", audit(0, 1), 0, IdpKey)

\* The certificate of sequence number 0, made of those votes.
ArchivedCertificate ==
    [root |-> "R0", sequence_number |-> 0,
     votes |-> [i \in 1..3 |->
                   << CommitteeOrder[i],
                      NewVote(FirstNotification, CommitteeOrder[i]).signature >>]]

InitCatchUp ==
    /\ committee = TestCommittee
    /\ tracked = Witnesses
    /\ pc = [w \in Witnesses |-> "idle"]
    /\ sequence_number = [w \in Witnesses |-> IF w \in Advanced THEN 1 ELSE 0]
    /\ lock = [w \in Witnesses |-> None]
    /\ storage = [w \in Witnesses |->
                     IF w \in Advanced
                     THEN StorageWrite(StorageWrite(EmptyStorage, STORE_SEQ_ADDR,
                                                    to_le_bytes(1)),
                                       STORE_LOCK_ADDR, EmptyBytes)
                     ELSE EmptyStorage]
    /\ cur = [w \in Witnesses |-> None]
    /\ reply = [w \in Witnesses |-> None]
    /\ voted = { [vote |-> NewVote(FirstNotification, w),
                  proof |-> FirstNotification.proof] : w \in Advanced }
    /\ survived = {}
    /\ audit_storage = [w \in Witnesses |->
                           IF w \in Advanced
                           THEN StorageWrite(EmptyAudit, to_le_bytes(0),
                                             SerializeCertificate(ArchivedCertificate))
                           ELSE EmptyAudit]
    /\ queried = [w \in Witnesses |-> None]
    /\ answer = [w \in Witnesses |-> None]
    /\ InitVerifyIdle
    /\ InitIdp
    /\ InitNetwork
    /\ InitNotificationIdle

SpecCatchUp == InitCatchUp /\ [][NextEndToEnd]_vars /\ FairEndToEnd

\* ------------------------------------------------------------------------
\* The IdP started again after its last persisted notification was certified:
\* the IdP is down on a storage that holds the notification of sequence
\* number 1, and the four witnesses finalized its certificate.

\* The notification the IdP persisted: the one Prover::run builds from the
\* first batch.
LastNotification == NewNotification(AkdRoots[1], audit(0, 1), 1, IdpKey)

\* The batch the key directory holds: batch_size well-formed updates.
FirstBatch ==
    [i \in 1..batch_size |-> Unwrap(deserialize(<< 65, 65, 44, 66, 66 >>).val)]

InitRebroadcast ==
    /\ committee = TestCommittee
    /\ tracked = Witnesses
    /\ pc = [w \in Witnesses |-> "idle"]
    /\ sequence_number = [w \in Witnesses |-> LastNotification.sequence_number + 1]
    /\ lock = [w \in Witnesses |-> None]
    /\ storage = [w \in Witnesses |->
                     StorageWrite(StorageWrite(EmptyStorage, STORE_SEQ_ADDR,
                                               to_le_bytes(LastNotification.sequence_number + 1)),
                                  STORE_LOCK_ADDR, EmptyBytes)]
    /\ cur = [w \in Witnesses |-> None]
    /\ reply = [w \in Witnesses |-> None]
    /\ voted = { [vote |-> NewVote(LastNotification, w),
                  proof |-> LastNotification.proof] : w \in Witnesses }
    /\ survived = {}
    /\ idp_pc = [batcher |-> "down", prover |-> "down", publisher |-> "down"]
    /\ submitted = 0
    /\ valid_updates = 0
    /\ decoded = << >>
    /\ current_batch = << >>
    /\ current_batch_size = 0
    /\ rx_batch = << >>
    /\ prover_seq = 0
    /\ akd = << FirstBatch >>
    /\ rx_notification = << >>
    /\ idp_storage = [EmptyIdpStorage EXCEPT ![STORE_LAST_NOTIFICATION_ADDR] =
                          Some(SerializeNotification(LastNotification))]
    /\ serialized = None
    /\ round = 1
    /\ waiting = {}
    /\ sync_handles = 0
    /\ broadcasts = << >>
    /\ built = << >>
    /\ restored = None
    /\ crashes = MaxCrashes
    /\ InitVerifyIdle
    /\ InitAggregatorIdle
    /\ InitNetwork
    /\ InitNotificationIdle
    /\ InitHelpers

\* The IdP process is started.
RestartStep == IdpRestart /\ UNCHANGED << nonpipeline, wvars >>

NextRebroadcast ==
    \/ RestartStep
    \/ ClientStep
    \/ BatcherStep
    \/ ProverStep
    \/ PublisherStep
    \/ \E w \in Witnesses : WitnessStep(w)

FairRebroadcast ==
    /\ WF_vars(RestartStep)
    /\ FairEndToEnd

SpecRebroadcast == InitRebroadcast /\ [][NextRebroadcast]_vars /\ FairRebroadcast

\* ------------------------------------------------------------------------
\* Properties of one witness.

\* The reply of witness w is the vote v.
RepliedVote(w, v) ==
    /\ IsSome(reply[w])
    /\ Unwrap(reply[w]).kind = "PublishVote"
    /\ Unwrap(reply[w]).result.ok
    /\ Unwrap(Unwrap(reply[w]).result.val) = v

\* The reply of witness w is the error e.
RepliedError(w, kind, e) ==
    /\ IsSome(reply[w])
    /\ Unwrap(reply[w]).kind = kind
    /\ ~Unwrap(reply[w]).result.ok
    /\ Unwrap(reply[w]).result.err = e

\* The sequence number of a witness: the one in memory while its process
\* runs, else the one a restart will read from storage.
StoredSeq(w) ==
    IF IsSome(StorageRead(storage[w], STORE_SEQ_ADDR))
    THEN Unwrap(from_le_bytes(Unwrap(StorageRead(storage[w], STORE_SEQ_ADDR))))
    ELSE 0

\* The handler task of the witness is running.
Running(w) == pc[w] \notin {"down", "panicked"}

WitnessSeq(w) == IF Running(w) THEN sequence_number[w] ELSE StoredSeq(w)

\* C2 -- No equivocation: whatever notifications, certificates and state
\* queries a witness receives, valid or not and in any order, the votes it
\* replies with never hold two votes with the same sequence number and
\* different roots.
C2_NoEquivocation ==
    \A x \in Votes, y \in Votes :
        (x.author = y.author /\ x.sequence_number = y.sequence_number)
            => x.root = y.root

\* A witness that voted for a root has refused a notification for another
\* root at the same sequence number.
C2_Witness ==
    \E v \in Votes, r \in Roots :
        /\ r # v.root
        /\ v.sequence_number = sequence_number[v.author]
        /\ RepliedError(v.author, "PublishVote", ConflictingNotification(v.root, r))

\* C3 -- Sequence monotonicity: a step takes the sequence number of a witness
\* from s to s+1 exactly when it is the processing of a certificate c with
\* c.sequence_number = s that verifies; every other step (a notification, a
\* state query, any other certificate, a crash, a restart) leaves it at s.
C3_SequenceMonotonicity ==
    [][\A w \in tracked :
          LET s == WitnessSeq(w)
          IN  /\ WitnessSeq(w)' \in {s, s + 1}
              /\ WitnessSeq(w)' = s + 1
                   <=> /\ pc[w] = "idle"
                       /\ pc'[w] = "clear_lock"
                       /\ \E r \in Roots, a \in AuthorLists :
                              LET c == Certificate(r, s, a)
                              IN  /\ VerifyCertificate(c).ok
                                  /\ RecvCertificate(w, c)]_vars

\* A witness has advanced twice, and then answered a valid certificate for an
\* earlier sequence number without advancing.
C3_Witness ==
    \E w \in tracked :
        /\ pc[w] = "idle"
        /\ sequence_number[w] = 2
        /\ IsSome(reply[w])
        /\ Unwrap(reply[w]).kind = "State"
        /\ Unwrap(reply[w]).result.ok

\* C4 -- Witness crash recovery: a witness that restarts from its storage
\* after a vote for (r, s) left it, and that is still at sequence number s,
\* answers a valid notification for (r, s) with the identical vote and a valid
\* notification for (r', s), r' # r, with ConflictingNotification(r, r'),
\* keeping its lock; across the crash it never issues votes for two roots at s.
C4_CrashRecovery ==
    /\ [][\A w \in tracked : \A v \in survived :
            (v.author = w /\ Running(w) /\ v.sequence_number = sequence_number[w])
            => /\ \A n \in ValidNotifications :
                    (n.sequence_number = v.sequence_number /\ RecvNotification(w, n))
                    => IF n.root = v.root
                       THEN /\ pc'[w] = "reply_vote"
                            /\ Unwrap(cur'[w]).vote = v
                            /\ lock'[w] = Some(v)
                       ELSE /\ RepliedError(w, "PublishVote",
                                      ConflictingNotification(v.root, n.root))'
                            /\ lock'[w] = lock[w]
                            /\ storage'[w] = storage[w]
               /\ ReplyVote(w) => RepliedVote(w, v)']_vars
    /\ [](\A x \in Votes, y \in survived :
            (x.author = y.author /\ x.sequence_number = y.sequence_number)
                => x.root = y.root)

\* A restarted witness has replied again with a vote it issued before its
\* restart.
C4_Witness ==
    \E v \in survived :
        /\ pc[v.author] = "idle"
        /\ sequence_number[v.author] = v.sequence_number
        /\ RepliedVote(v.author, v)

\* C5 -- Idempotent re-vote: a witness at sequence number s that voted for
\* (r, s) answers every later valid notification for (r, s), whatever its
\* proof, with exactly that vote, and its sequence number and lock after the
\* reply are those after the first reply.
C5_IdempotentReVote ==
    [][\A w \in tracked : \A v \in Votes :
          (v.author = w /\ Running(w) /\ v.sequence_number = sequence_number[w])
          => /\ lock[w] = Some(v)
             /\ \A n \in ValidNotifications :
                  (n.root = v.root /\ n.sequence_number = v.sequence_number
                       /\ RecvNotification(w, n))
                  => /\ pc'[w] = "reply_vote"
                     /\ Unwrap(cur'[w]).vote = v
                     /\ lock'[w] = Some(v)
                     /\ sequence_number'[w] = sequence_number[w]
             /\ ReplyVote(w)
                  => /\ RepliedVote(w, v)'
                     /\ lock'[w] = Some(v)
                     /\ sequence_number'[w] = sequence_number[w]]_vars

\* A witness has answered two notifications that differ only in their proof
\* with one vote, which is its lock.
C5_Witness ==
    \E x \in voted, y \in voted :
        /\ x.vote = y.vote
        /\ x.proof # y.proof
        /\ RepliedVote(x.vote.author, x.vote)
        /\ lock[x.vote.author] = Some(x.vote)

\* C10 -- Fresh vote: a witness at sequence number s without a lock that
\* receives a valid notification for (r, s) makes a vote with root r, sequence
\* number s and its own key as author, signed by it; the vote becomes its lock
\* (in memory and in storage), its sequence number stays s, and the vote is
\* what it replies.
C10_FreshVote ==
    [][\A w \in tracked :
          /\ \A n \in ValidNotifications :
               (~IsSome(lock[w]) /\ n.sequence_number = sequence_number[w]
                    /\ RecvNotification(w, n))
               => LET v == Unwrap(cur'[w]).vote
                  IN  /\ pc'[w] = "reply_vote"
                      /\ v.root = n.root
                      /\ v.sequence_number = sequence_number[w]
                      /\ v.author = w
                      /\ VerifyVote(v).ok
                      /\ lock'[w] = Some(v)
                      /\ DeserializeVote(Unwrap(StorageRead(storage'[w], STORE_LOCK_ADDR)))
                           = Some(v)
                      /\ sequence_number'[w] = sequence_number[w]
          /\ ReplyVote(w)
               => \A v \in {Unwrap(cur[w]).vote} :
                     /\ RepliedVote(w, v)'
                     /\ lock'[w] = Some(v)
                     /\ sequence_number'[w] = sequence_number[w]]_vars

\* A witness at sequence number 1 has replied with its first vote for that
\* sequence number.
C10_Witness ==
    \E w \in tracked, v \in Votes :
        /\ v.author = w
        /\ v.sequence_number = 1
        /\ sequence_number[w] = 1
        /\ RepliedVote(w, v)
        /\ lock[w] = Some(v)
        /\ \A x \in voted : x.vote = v => x.proof = "P1"

\* C11 -- Unexpected sequence number: a witness that receives a validly
\* signed notification whose sequence number differs from its own (higher or
\* lower, with or without a lock) replies UnexpectedSequenceNumber with
\* expected = its sequence number and got = the notification's; it makes no
\* vote and its sequence number and lock (in memory and in storage) stay.
C11_UnexpectedSequenceNumber ==
    [][\A w \in tracked : \A n \in ValidNotifications :
          (n.sequence_number # sequence_number[w] /\ RecvNotification(w, n))
          => /\ RepliedError(w, "PublishVote",
                     UnexpectedSequenceNumber(sequence_number[w], n.sequence_number))'
             /\ pc'[w] = "idle"
             /\ cur'[w] = None
             /\ voted' = voted
             /\ sequence_number'[w] = sequence_number[w]
             /\ lock'[w] = lock[w]
             /\ storage'[w] = storage[w]]_vars

\* A witness at sequence number 1 that holds a lock has refused a
\* notification for sequence number 0.
C11_Witness ==
    \E w \in tracked :
        /\ sequence_number[w] = 1
        /\ IsSome(lock[w])
        /\ Unwrap(lock[w]).sequence_number = 1
        /\ RepliedError(w, "PublishVote", UnexpectedSequenceNumber(1, 0))

\* C12 -- Conflict refusal: a witness at sequence number s whose lock is a
\* vote for root r and that receives a valid notification for (r', s) with
\* r' # r replies ConflictingNotification(lock root r, received root r'),
\* makes no vote, and its lock in memory and in storage is still the vote
\* for r.
C12_ConflictRefusal ==
    [][\A w \in tracked : \A n \in ValidNotifications :
          (/\ IsSome(lock[w])
           /\ n.sequence_number = sequence_number[w]
           /\ n.root # Unwrap(lock[w]).root
           /\ RecvNotification(w, n))
          => /\ RepliedError(w, "PublishVote",
                     ConflictingNotification(Unwrap(lock[w]).root, n.root))'
             /\ pc'[w] = "idle"
             /\ cur'[w] = None
             /\ voted' = voted
             /\ lock'[w] = lock[w]
             /\ storage'[w] = storage[w]
             /\ sequence_number'[w] = sequence_number[w]]_vars

\* A witness has refused a notification for R0 while its lock, in memory and
\* in storage, is its vote for R1 at its sequence number.
C12_Witness ==
    \E w \in tracked :
        /\ IsSome(lock[w])
        /\ Unwrap(lock[w]).root = "R1"
        /\ Unwrap(lock[w]).sequence_number = sequence_number[w]
        /\ DeserializeVote(Unwrap(StorageRead(storage[w], STORE_LOCK_ADDR))) = lock[w]
        /\ RepliedError(w, "PublishVote", ConflictingNotification("R1", "R0"))

\* C13 -- Missing earlier certificates: a witness at sequence number s that
\* receives a valid certificate with a greater sequence number replies
\* MissingEarlierCertificates(s); its sequence number and lock stay.
C13_MissingEarlierCertificates ==
    [][\A w \in tracked : \A r \in Roots, s \in SeqNums, a \in AuthorLists :
          LET c == Certificate(r, s, a)
          IN  (/\ pc[w] = "idle"
               /\ s > sequence_number[w]
               /\ VerifyCertificate(c).ok
               /\ RecvCertificate(w, c))
              => /\ RepliedError(w, "State",
                         MissingEarlierCertificates(sequence_number[w]))'
                 /\ pc'[w] = "idle"
                 /\ sequence_number'[w] = sequence_number[w]
                 /\ lock'[w] = lock[w]
                 /\ storage'[w] = storage[w]]_vars

\* A witness at sequence number 0 that holds a lock has refused a
\* certificate with MissingEarlierCertificates(0).
C13_Witness ==
    \E w \in tracked :
        /\ sequence_number[w] = 0
        /\ IsSome(lock[w])
        /\ RepliedError(w, "State", MissingEarlierCertificates(0))

\* C14 -- Finalize past: a witness that receives a valid certificate with a
\* sequence number smaller than its own replies with success and its current
\* state; its sequence number and its lock, in memory and in storage, do not
\* change and nothing is written to the storage the sync helper reads.
C14_FinalizePast ==
    [][\A w \in tracked : \A r \in Roots, s \in SeqNums, a \in AuthorLists :
          LET c == Certificate(r, s, a)
          IN  (/\ pc[w] = "idle"
               /\ s < sequence_number[w]
               /\ VerifyCertificate(c).ok
               /\ RecvCertificate(w, c))
              => /\ reply'[w] = Some(StateReply(Ok(
                         [sequence_number |-> sequence_number[w], lock |-> lock[w]])))
                 /\ pc'[w] = "idle"
                 /\ sequence_number'[w] = sequence_number[w]
                 /\ lock'[w] = lock[w]
                 /\ storage'[w] = storage[w]
                 /\ audit_storage' = audit_storage]_vars

\* A witness at sequence number 2 that holds a lock has acknowledged an
\* earlier certificate with its state.
C14_Witness ==
    \E w \in tracked :
        /\ pc[w] = "idle"
        /\ sequence_number[w] = 2
        /\ IsSome(lock[w])
        /\ reply[w] = Some(StateReply(Ok([sequence_number |-> 2, lock |-> lock[w]])))

\* C15 -- Lock clearance: the handling of a certificate that takes a witness
\* from sequence number s to s+1 leaves it without a lock, whatever its lock
\* was (none, a vote for the root of the certificate, a vote for another
\* root), and replies the state (s+1, no lock).
C15_LockClearance ==
    /\ [][\A w \in tracked :
            /\ ClearLock(w)
                 => /\ sequence_number[w] = Unwrap(cur[w]).certificate.sequence_number + 1
                    /\ lock'[w] = None
                    /\ StorageRead(storage'[w], STORE_LOCK_ADDR) = Some(EmptyBytes)
            /\ ReplyState(w)
                 => /\ lock'[w] = None
                    /\ reply'[w] = Some(StateReply(Ok(
                           [sequence_number |->
                                Unwrap(cur[w]).certificate.sequence_number + 1,
                            lock |-> None])))]_vars
    /\ [](\A w \in tracked : pc[w] = "reply_state" => lock[w] = None)

\* A witness that voted for a root is about to acknowledge the certificate of
\* another root for the same sequence number, and holds no lock.
C15_Witness ==
    \E w \in tracked, v \in Votes :
        /\ v.author = w
        /\ pc[w] = "reply_state"
        /\ Unwrap(cur[w]).certificate.sequence_number = v.sequence_number
        /\ Unwrap(cur[w]).certificate.root # v.root
        /\ sequence_number[w] = v.sequence_number + 1
        /\ lock[w] = None


\* ------------------------------------------------------------------------
\* Properties of certificates.

\* The authors of the votes of a certificate.
AuthorsOf(c) == { c.votes[i][1] : i \in 1..Len(c.votes) }

\* No key authors two votes of the certificate.
NoRepeatedAuthor(c) ==
    \A i, j \in 1..Len(c.votes) : i # j => c.votes[i][1] # c.votes[j][1]

\* Every author of the certificate has voting power in the committee.
EveryAuthorInCommittee(c) == \A a \in AuthorsOf(c) : voting_power(a) > 0

\* The voting power of the authors of the certificate, each counted once.
SummedVotingPower(c) == SumPower(AuthorsOf(c))

\* Every signature of the certificate verifies over its digest.
EverySignatureValid(c) ==
    \A i \in 1..Len(c.votes) : SigVerify(c.votes[i][2], digest(c), c.votes[i][1])

\* The result of a call of Aggregator::append that returned a certificate.
ReturnedCertificate ==
    /\ IsSome(returned)
    /\ Unwrap(returned).ok
    /\ IsSome(Unwrap(Unwrap(returned).val))

\* C7: PublishCertificate::verify succeeds exactly when no author repeats,
\* every author has voting power above zero, the summed voting power reaches
\* the quorum threshold and every signature is valid over the digest of the
\* certificate.  Otherwise it fails with WitnessReuse for a repeated author,
\* UnknownWitness for an author without voting power, CertificateRequiresQuorum
\* for a weight below the threshold, InvalidSignature for a bad signature
\* (checked in this order: authors, weight, signatures).  A certificate with
\* the valid votes of all four witnesses of the four-witness committee is
\* accepted: weight above the threshold is no error.
C7_VerifyCertificate ==
    IsSome(outcome) =>
        LET c == certificate
            res == Unwrap(outcome)
            authors_ok == NoRepeatedAuthor(c) /\ EveryAuthorInCommittee(c)
            quorum_ok == SummedVotingPower(c) >= quorum_threshold
        IN  /\ res.ok <=> (authors_ok /\ quorum_ok /\ EverySignatureValid(c))
            /\ ~res.ok =>
                  /\ res.err \in { WitnessReuse, UnknownWitness,
                                   CertificateRequiresQuorum, InvalidSignature }
                  /\ res.err = WitnessReuse => ~NoRepeatedAuthor(c)
                  /\ res.err = UnknownWitness => ~EveryAuthorInCommittee(c)
                  /\ ~NoRepeatedAuthor(c) /\ EveryAuthorInCommittee(c)
                        => res.err = WitnessReuse
                  /\ NoRepeatedAuthor(c) /\ ~EveryAuthorInCommittee(c)
                        => res.err = UnknownWitness
                  /\ res.err = CertificateRequiresQuorum
                        <=> authors_ok /\ ~quorum_ok
                  /\ res.err = InvalidSignature
                        <=> authors_ok /\ quorum_ok /\ ~EverySignatureValid(c)
            /\ (AuthorsOf(c) = Witnesses /\ Len(c.votes) = 4 /\ EverySignatureValid(c))
                  => res.ok

\* A certificate of all four witnesses, one more than the quorum of the test
\* committee, was verified and accepted.
C7_Witness ==
    /\ IsSome(outcome)
    /\ Unwrap(outcome).ok
    /\ committee = TestCommittee
    /\ Len(certificate.votes) = 4
    /\ SummedVotingPower(certificate) > quorum_threshold

\* C6: every certificate returned by Aggregator::append, after any sequence
\* of calls of reset and append, lists pairwise distinct authors, each a
\* witness of the committee, whose summed voting power reaches the quorum
\* threshold.
C6_QuorumSoundness ==
    ReturnedCertificate =>
        LET c == Unwrap(Unwrap(Unwrap(returned).val))
        IN  /\ NoRepeatedAuthor(c)
            /\ EveryAuthorInCommittee(c)
            /\ SummedVotingPower(c) >= quorum_threshold

\* append returned a certificate for a committee of unequal voting powers
\* after rejecting the badly signed vote of a witness that is not among the
\* authors of the certificate.
C6_Witness ==
    /\ ReturnedCertificate
    /\ committee # TestCommittee
    /\ aggregator.used
         # AuthorsOf(Unwrap(Unwrap(Unwrap(returned).val)))

\* A valid certificate for (root, seq) can be assembled from the signatures
\* that exist: those of the votes the three handlers replied with, and any
\* signature of the fourth witness.
Certified(root, seq) ==
    LET d == digest([root |-> root, sequence_number |-> seq])
        signers == { a \in Witnesses : CanSign(a, d) }
    IN  \E S \in SUBSET signers :
            VerifyCertificate(Certificate(root, seq, ListOf(S, CommitteeOrder))).ok

\* C1: with a committee of total voting power T and witnesses of voting power
\* at most floor((T - 1) / 3) departing from the protocol, no two certificates
\* that PublishCertificate::verify accepts carry the same sequence number and
\* different roots.
C1_CertificateUniqueness ==
    \A seq \in SeqNums, r1 \in Roots, r2 \in Roots :
        (r1 # r2 /\ Certified(r1, seq)) => ~Certified(r2, seq)

\* A certificate exists for one root while a handler voted for another root
\* at the same sequence number: the IdP equivocated and obtained a quorum.
C1_Witness ==
    \E seq \in SeqNums, r1 \in Roots, v \in Votes :
        /\ Certified(r1, seq)
        /\ v.author \in tracked
        /\ v.sequence_number = seq
        /\ v.root # r1

\* ------------------------------------------------------------------------
\* Properties of the IdP.

\* The notification persisted when the IdP started.
RestoredNotification == Unwrap(DeserializeNotification(Unwrap(restored)))

\* The notifications of a sequence.
Range(q) == { q[i] : i \in 1..Len(q) }

\* The restored notification is the next one the publisher broadcasts: it is
\* the first in the publisher's channel, or the publisher persisted it and is
\* about to broadcast it.
RestoredIsNext ==
    \/ /\ idp_pc.publisher = "idle"
       /\ rx_notification # << >>
       /\ Head(rx_notification) = RestoredNotification
    \/ /\ idp_pc.publisher = "broadcast"
       /\ serialized = Some(SerializeNotification(RestoredNotification))

\* What holds of the IdP since its last start.
RecoveryInvariant ==
    idp_pc.prover # "down" =>
        IF IsSome(restored)
        THEN /\ broadcasts = << >> => RestoredIsNext
             /\ broadcasts # << >> => broadcasts[1] = RestoredNotification
             /\ \A i \in 2..Len(broadcasts) :
                    /\ broadcasts[i] # RestoredNotification
                    /\ broadcasts[i] \in Range(built)
             /\ built = << >> => prover_seq = RestoredNotification.sequence_number
             /\ built # << >> =>
                    built[1].sequence_number = RestoredNotification.sequence_number + 1
        ELSE /\ Range(broadcasts) \subseteq Range(built)
             /\ built = << >> => prover_seq = 0
             /\ built # << >> => built[1].sequence_number = 1

\* C9: when the IdP starts with a persisted last notification n, n is handed
\* to the publisher and broadcast exactly once for that start, before any
\* notification built from a new batch, and the first notification built
\* after the start has sequence number n.sequence_number + 1; when nothing is
\* persisted, nothing is broadcast again and the sequence number of the prover
\* starts at 0.  (The broadcast happens unless the IdP stops again first.)
C9_IdpCrashRecovery ==
    /\ []RecoveryInvariant
    /\ IsSome(restored) ~> (broadcasts # << >> \/ idp_pc.prover = "down")

\* The IdP started with a persisted notification, broadcast it again, and then
\* broadcast the notification of a new batch, with the next sequence number.
C9_Witness ==
    /\ IsSome(restored)
    /\ Len(broadcasts) >= 2
    /\ broadcasts[1] = RestoredNotification
    /\ broadcasts[2].sequence_number = RestoredNotification.sequence_number + 1

\* C8: from a freshly started IdP and freshly started witnesses, all correct,
\* with every message delivered and every task scheduled, once batch_size
\* valid client updates were submitted every witness eventually finalizes the
\* certificate of the first notification (its sequence number advances).
C8_EndToEndProgress ==
    (valid_updates >= batch_size) ~> (\A w \in Witnesses : sequence_number[w] >= 1)

\* Every witness refused the first notification, whose sequence number is 1
\* while theirs is 0, and the publisher stopped on the handle of its sync.
C8_Witness ==
    /\ valid_updates >= batch_size
    /\ idp_pc.publisher = "panicked"
    /\ \A w \in Witnesses :
           /\ sequence_number[w] = 0
           /\ reply[w] = Some(PublishVoteReply(Err(UnexpectedSequenceNumber(0, 1))))

\* ------------------------------------------------------------------------
\* Properties of the aggregator between two resets.

\* C16 -- Single emission: for every committee and every sequence of calls of
\* Aggregator::append between two resets, at most one call returns a
\* certificate; once one did, every later call (the steps that leave a result)
\* returns None or an error until the aggregator is reset.
C16_SingleEmission ==
    /\ [](emitted <= 1)
    /\ [][(emitted >= 1 /\ IsSome(returned'))
            => /\ emitted' = emitted
               /\ \/ ~Unwrap(returned').ok
                  \/ Unwrap(Unwrap(returned').val) = None]_vars

\* After the call that returned a certificate, the vote of one more witness
\* was appended and the call returned None.
C16_Witness ==
    /\ emitted = 1
    /\ aggregator.weight > 0
    /\ Cardinality(aggregator.used) = Len(aggregator.votes)
    /\ IsSome(returned)
    /\ Unwrap(returned).ok
    /\ Unwrap(Unwrap(returned).val) = None

\* ------------------------------------------------------------------------
\* Properties of PublishNotification::verify.

QueriedPast(w) ==
    /\ IsSome(queried[w])
    /\ Unwrap(queried[w]).handler = "idle"
    /\ Unwrap(queried[w]).witness_sequence_number > Unwrap(queried[w]).sequence_number

\* The certificate query of witness w was for a sequence number without an
\* entry in the storage of its sync helper.
QueriedAbsent(w) ==
    /\ IsSome(queried[w])
    /\ ~IsSome(StorageRead(audit_storage[w],
                           to_le_bytes(Unwrap(queried[w]).sequence_number)))

\* The answer to the certificate query of witness w is a
\* PublishCertificateResponse with a valid certificate for sequence number k.
AnsweredCertificate(w, k) ==
    /\ IsSome(answer[w])
    /\ Unwrap(answer[w]).ok
    /\ Unwrap(Unwrap(answer[w]).val).kind = "PublishCertificateResponse"
    /\ IsSome(DeserializeCertificate(Unwrap(Unwrap(answer[w]).val).bytes))
    /\ LET c == Unwrap(DeserializeCertificate(Unwrap(Unwrap(answer[w]).val).bytes))
       IN  c.sequence_number = k /\ VerifyCertificate(c).ok

\* C17 -- Certificate archive: a witness that finalized the certificate of
\* sequence number s archived it under key s, so that a
\* PublishCertificateQuery for k sent to a witness that has passed k is
\* answered with a PublishCertificateResponse holding a valid certificate
\* whose sequence number is k.
C17_CertificateArchive ==
    \A w \in tracked :
        QueriedPast(w) => AnsweredCertificate(w, Unwrap(queried[w]).sequence_number)

\* A witness that finalized the certificate of sequence number 0 was queried
\* for it.
C17_Witness ==
    \E w \in tracked :
        /\ QueriedPast(w)
        /\ Unwrap(queried[w]).sequence_number = 0
        /\ sequence_number[w] = 1
        /\ StorageRead(storage[w], STORE_SEQ_ADDR) = Some(to_le_bytes(1))
        /\ IsSome(answer[w])

\* C18 -- Certificate query for an absent sequence number: a
\* PublishCertificateQuery for a sequence number without an archived
\* certificate is answered (the IdP receives a reply, which says not found),
\* and the witness goes on serving.
C18_AbsentCertificateQuery ==
    \A w \in tracked :
        QueriedAbsent(w)
        => /\ IsSome(answer[w])
           /\ Unwrap(answer[w]).ok
           /\ Unwrap(Unwrap(answer[w]).val).kind # "PublishCertificateResponse"

\* A witness at sequence number 0 was queried for the certificate of
\* sequence number 1.
C18_Witness ==
    \E w \in tracked :
        /\ QueriedAbsent(w)
        /\ Unwrap(queried[w]).sequence_number = 1
        /\ Unwrap(queried[w]).witness_sequence_number = 0
        /\ IsSome(answer[w])

\* ------------------------------------------------------------------------
\* Properties of the synchronization of a lagging witness.

\* The sync helper of witness x holds a valid certificate for every sequence
\* number from `from` up to, not including, `to`.
Archived(x, from, to) ==
    \A k \in from..(to - 1) :
        /\ IsSome(helper_reply(audit_storage[x], k))
        /\ IsSome(DeserializeCertificate(Unwrap(helper_reply(audit_storage[x], k)).bytes))
        /\ LET c == Unwrap(DeserializeCertificate(
                         Unwrap(helper_reply(audit_storage[x], k)).bytes))
           IN  c.sequence_number = k /\ VerifyCertificate(c).ok

\* Witness w answered the notification of sequence number g as a witness that
\* is behind, and another witness archived the certificates it misses.
BehindNotification(w, g) ==
    /\ sequence_number[w] < g
    /\ RepliedError(w, "PublishVote", UnexpectedSequenceNumber(sequence_number[w], g))
    /\ \E x \in Witnesses \ {w} : Archived(x, sequence_number[w], g)

\* Witness w answered a certificate with MissingEarlierCertificates, and
\* another witness archived the certificate of its sequence number.
BehindCertificate(w, s) ==
    /\ sequence_number[w] = s
    /\ RepliedError(w, "State", MissingEarlierCertificates(s))
    /\ \E x \in Witnesses \ {w} : Archived(x, s, s + 1)

StoredLock(w) ==
    LET bytes == StorageRead(storage[w], STORE_LOCK_ADDR)
    IN  IF IsSome(bytes) /\ Unwrap(bytes) # EmptyBytes
        THEN DeserializeVote(Unwrap(bytes))
        ELSE None

\* C21 -- Lock/sequence consistency: the lock of a witness is absent or a
\* vote for the sequence number of the witness, in memory between two
\* messages and in storage at every instant, between the storage writes of a
\* finalization too, hence after a crash at any point and a restart.
C21_LockSequenceConsistency ==
    \A w \in tracked :
        /\ (pc[w] = "idle" /\ IsSome(lock[w]))
               => Unwrap(lock[w]).sequence_number = sequence_number[w]
        /\ IsSome(StoredLock(w))
               => Unwrap(StoredLock(w)).sequence_number = StoredSeq(w)

\* A witness restarted after a stop between the two writes of a finalization
\* runs at sequence number 1 with its vote for sequence number 0 as lock.
C21_Witness ==
    \E w \in tracked : \E v \in survived :
        /\ pc[w] = "idle"
        /\ v.author = w
        /\ v.sequence_number = 0
        /\ sequence_number[w] = 1
        /\ lock[w] = Some(v)

\* C22 -- Write-before-reply: when a vote leaves a witness its storage holds
\* that vote as the lock; when the success reply to a certificate that
\* advanced the witness leaves it, its storage holds the incremented sequence
\* number and a cleared lock.  What a witness replied with success is what
\* its storage holds as long as the witness handled nothing else since.
C22_WriteBeforeReply ==
    /\ [][\A w \in tracked :
            /\ ReplyVote(w)
                 => /\ StoredLock(w) = Some(Unwrap(cur[w]).vote)
                    /\ RepliedVote(w, Unwrap(StoredLock(w)))'
                    /\ storage'[w] = storage[w]
            /\ ReplyState(w)
                 => /\ StoredSeq(w) =
                           Unwrap(cur[w]).certificate.sequence_number + 1
                    /\ StorageRead(storage[w], STORE_LOCK_ADDR) = Some(EmptyBytes)
                    /\ reply'[w] = Some(StateReply(Ok(
                           [sequence_number |-> StoredSeq(w), lock |-> StoredLock(w)])))
                    /\ storage'[w] = storage[w]]_vars
    /\ [](\A w \in tracked : \A v \in Votes :
            (pc[w] = "idle" /\ RepliedVote(w, v)) => StoredLock(w) = Some(v))

\* A witness at sequence number 1 has replied with a vote that its storage
\* holds as lock, next to the sequence number 1.
C22_Witness ==
    \E w \in tracked, v \in Votes :
        /\ pc[w] = "idle"
        /\ RepliedVote(w, v)
        /\ v.sequence_number = 1
        /\ StoredSeq(w) = 1
        /\ StoredLock(w) = Some(v)

\* C23 -- Restart reloads the state: a witness stopped between two messages,
\* in any state it can reach, after finalizations that cleared its lock too,
\* and spawned again on its storage starts and resumes with the sequence
\* number and the lock it held; every restart that happens yields what
\* PublishHandler::spawn reads from the storage.
C23_RestartReloadsState ==
    /\ [](\A w \in tracked :
            pc[w] = "idle"
            => spawn(storage[w]) = [panicked |-> FALSE,
                                    sequence_number |-> sequence_number[w],
                                    lock |-> lock[w]])
    /\ [][\A w \in tracked :
            Restart(w)
            => /\ pc'[w] = "idle"
               /\ sequence_number'[w] = spawn(storage[w]).sequence_number
               /\ lock'[w] = spawn(storage[w]).lock]_vars

\* A witness was stopped after it finalized a certificate and its restart
\* panicked on the empty value stored at the address of the lock.
C23_Witness ==
    \E w \in tracked :
        /\ pc[w] = "panicked"
        /\ StoredSeq(w) = 1
        /\ StorageRead(storage[w], STORE_LOCK_ADDR) = Some(EmptyBytes)

\* ------------------------------------------------------------------------
\* Properties of the publisher.

\* The notification held by the storage of the IdP, if any.
PersistedNotification ==
    IF IsSome(idp_storage[STORE_LAST_NOTIFICATION_ADDR])
    THEN DeserializeNotification(Unwrap(idp_storage[STORE_LAST_NOTIFICATION_ADDR]))
    ELSE None

\* The notifications sent to some witness: those broadcast since the IdP
\* started and those on their way to a witness.
SentNotifications ==
    Range(broadcasts)
    \cup UNION { { inbox[w][i].msg :
                   i \in { j \in 1..Len(inbox[w]) : inbox[w][j].kind = "notification" } } :
                 w \in Witnesses }

\* C24 -- Persist-before-send at the IdP: the publisher writes each
\* notification it handles at STORE_LAST_NOTIFICATION_ADDR before it sends it
\* to any witness; at every instant a notification that was sent to a witness
\* is the persisted one or has a smaller sequence number than the persisted
\* one.
C24_PersistBeforeSend ==
    /\ [][PublisherBroadcast
            => /\ idp_storage[STORE_LAST_NOTIFICATION_ADDR] = serialized
               /\ PersistedNotification = Some(broadcasts'[Len(broadcasts')])
               /\ idp_storage' = idp_storage]_vars
    /\ [](\A n \in SentNotifications :
            /\ IsSome(PersistedNotification)
            /\ \/ n = Unwrap(PersistedNotification)
               \/ n.sequence_number < Unwrap(PersistedNotification).sequence_number)

\* The persisted notification was sent after an earlier one, which has a
\* smaller sequence number.
C24_Witness ==
    /\ Len(broadcasts) >= 2
    /\ IsSome(PersistedNotification)
    /\ broadcasts[Len(broadcasts)] = Unwrap(PersistedNotification)
    /\ broadcasts[1].sequence_number < Unwrap(PersistedNotification).sequence_number

\* A certificate for the notification last broadcast was assembled: the
\* publisher sent it to the witnesses in the current round.
CertificateAssembled ==
    \E w \in Witnesses : \E i \in 1..Len(inbox[w]) :
        /\ inbox[w][i].kind = "certificate"
        /\ inbox[w][i].round = round
        /\ inbox[w][i].msg.sequence_number = broadcasts[Len(broadcasts)].sequence_number

\* C25 -- One notification in flight: the publisher takes (persists, then
\* broadcasts) the next notification only once a certificate for the
\* notification it broadcast last was assembled, also when every reply to
\* that broadcast arrived and the votes among them made no quorum.
C25_OneNotificationInFlight ==
    [][(PublisherReceive /\ broadcasts # << >>) => CertificateAssembled]_vars

\* Every witness replied to the broadcast, no certificate was assembled, and
\* the publisher persisted the next notification.
C25_Witness ==
    /\ broadcasts # << >>
    /\ idp_pc.publisher = "broadcast"
    /\ ~CertificateAssembled
    /\ IsSome(PersistedNotification)
    /\ Unwrap(PersistedNotification).sequence_number
           > broadcasts[Len(broadcasts)].sequence_number

\* ------------------------------------------------------------------------
\* Properties of the IdP started again.

\* The message at the head of the inbox of witness w is the notification n.
Receives(w, n) ==
    /\ inbox[w] # << >>
    /\ Head(inbox[w]).kind = "notification"
    /\ Head(inbox[w]).msg = n

\* A certificate for sequence number s is on its way to a witness.
CertificateSent(s) ==
    \E w \in Witnesses : \E i \in 1..Len(inbox[w]) :
        /\ inbox[w][i].kind = "certificate"
        /\ inbox[w][i].msg.sequence_number = s

\* The prover built the notification of sequence number s.
Built(s) == \E i \in 1..Len(built) : built[i].sequence_number = s

CertificateBroadcast ==
    \E w \in Witnesses : \E i \in 1..Len(inbox[w]) :
        inbox[w][i].kind = "certificate" /\ inbox[w][i].round = round

\* The certificates sent to witness w in answer to broadcast number r.
CertificatesOf(w, r) ==
    { i \in 1..Len(inbox[w]) :
          inbox[w][i].kind = "certificate" /\ inbox[w][i].round = r }

\* C27 -- One certificate per notification: for each notification the
\* publisher broadcasts at most one certificate; the certificate is sent to
\* every witness and its root is the root of the notification; once it was
\* broadcast the publisher has left the collection and passes no later reply
\* to that notification to the aggregator.
C27_OneCertificatePerNotification ==
    /\ [](\A w \in Witnesses : \A r \in 1..round :
              Cardinality(CertificatesOf(w, r)) <= 1)
    /\ [][\A w \in Witnesses :
              (/\ Len(inbox'[w]) = Len(inbox[w]) + 1
               /\ inbox'[w][Len(inbox'[w])].kind = "certificate")
                  => /\ \A x \in Witnesses :
                            inbox'[x] = Append(inbox[x], inbox'[w][Len(inbox'[w])])
                     /\ inbox'[w][Len(inbox'[w])].round = round
                     /\ inbox'[w][Len(inbox'[w])].msg.root
                            = broadcasts[Len(broadcasts)].root]_vars
    /\ []((CertificateBroadcast /\ idp_pc.publisher # "down")
              => (idp_pc.publisher # "collect" /\ waiting = {}))
    /\ [][(/\ CertificateBroadcast
           /\ round' = round
           /\ idp_pc.publisher # "down"
           /\ idp_pc'.publisher # "down")
              => aggregator' = aggregator]_vars

\* The certificate made of the votes of three witnesses was sent to the four
\* witnesses; the reply of the fourth one is not awaited any more.
C27_Witness ==
    /\ idp_pc.publisher = "idle"
    /\ broadcasts # << >>
    /\ \A w \in Witnesses :
           /\ Cardinality(CertificatesOf(w, round)) = 1
           /\ \A i \in CertificatesOf(w, round) :
                  /\ inbox[w][i].msg.root = broadcasts[Len(broadcasts)].root
                  /\ Len(inbox[w][i].msg.votes) = 3
    /\ waiting = {}


\* The reply r says that the witness is behind the notification.
BehindReply(r) ==
    /\ r.kind = "PublishVote"
    /\ ~r.result.ok
    /\ r.result.err.name = "UnexpectedSequenceNumber"
    /\ r.result.err.expected < r.result.err.got

\* The reply r is any other error, or a message of another type.
OtherErrorReply(r) ==
    \/ r.kind # "PublishVote"
    \/ ~r.result.ok /\ ~BehindReply(r)

\* The handling of a reply that says the witness is behind: a synchronization
\* is started, no vote is added, and the other replies stay awaited.
C28_BehindReplyHandled ==
    [][\A w \in Witnesses :
           (/\ IsSome(handles[w])
            /\ BehindReply(Unwrap(handles[w]))
            /\ PublisherCollect(w))
               => /\ sync_handles' = sync_handles + 1
                  /\ aggregator' = aggregator
                  /\ idp_pc'.publisher = "collect"
                  /\ waiting' = waiting \ {w}]_vars

\* The handling of any other error reply: no vote is added, no
\* synchronization is started, and the other replies stay awaited.
C28_OtherErrorHandled ==
    [][\A w \in Witnesses :
           (/\ IsSome(handles[w])
            /\ OtherErrorReply(Unwrap(handles[w]))
            /\ PublisherCollect(w))
               => /\ sync_handles' = sync_handles
                  /\ aggregator' = aggregator
                  /\ (waiting \ {w} # {})
                         => /\ idp_pc'.publisher = "collect"
                            /\ waiting' = waiting \ {w}]_vars

\* C28 -- Publisher reply handling: a reply UnexpectedSequenceNumber with
\* expected < got starts a synchronization for that witness and adds no vote;
\* any other error reply (UnexpectedSequenceNumber with expected >= got,
\* ConflictingNotification, a message of another type) adds no vote and
\* starts no synchronization; in both cases the publisher keeps waiting for
\* the replies that remain: while a reply is awaited it is collecting.
C28_ReplyHandling ==
    /\ C28_BehindReplyHandled
    /\ C28_OtherErrorHandled
    /\ []((idp_pc.publisher # "down" /\ waiting # {})
              => idp_pc.publisher = "collect")

\* A witness replied that it is behind, the handle returned by sync resolved,
\* and the publisher stopped while replies of other witnesses are awaited.
C28_Witness ==
    /\ idp_pc.publisher = "panicked"
    /\ sync_handles = 1
    /\ Cardinality(waiting) = 3
    /\ aggregator.votes = << >>


\* ------------------------------------------------------------------------
\* Properties of Aggregator::append, call by call: in every state the
\* aggregator reaches, for every vote a caller can append next.

\* The voting power of the authors whose votes the aggregator accepted since
\* its last reset.
AcceptedPower(agg) == SumPower(AuthorsOf(agg))

\* The call accepted the vote: it added it to the list of votes.
Accepted(agg, call) == call.agg.votes # agg.votes

\* The call returned a certificate.
Certifies(call) == call.result.ok /\ IsSome(Unwrap(call.result.val))

\* C29 -- Quorum completeness of the aggregator: since the last reset, a call
\* of append returns a certificate exactly when it is the first call at which
\* the summed voting power of the distinct authors whose votes were accepted
\* reaches quorum_threshold; a call accepts a vote only if it verifies, is
\* for the aggregator's root and is by a witness of the committee whose vote
\* was not accepted before; the certificate carries the aggregator's root and
\* exactly the (author, signature) pairs accepted so far, in the order of
\* acceptance.
C29_QuorumCompleteness ==
    \A vote \in VoteInputs :
        LET call == append(aggregator, vote)
        IN  /\ Accepted(aggregator, call) <=> call.result.ok
            /\ Accepted(aggregator, call) =>
                   /\ call.agg.votes
                          = Append(aggregator.votes, << vote.author, vote.signature >>)
                   /\ VerifyVote(vote).ok
                   /\ vote.root = aggregator.root
                   /\ voting_power(vote.author) > 0
                   /\ vote.author \notin AuthorsOf(aggregator)
            /\ Certifies(call) <=>
                   /\ AcceptedPower(aggregator) < quorum_threshold
                   /\ AcceptedPower(call.agg) >= quorum_threshold
            /\ Certifies(call) =>
                   /\ Unwrap(Unwrap(call.result.val)).root = aggregator.root
                   /\ Unwrap(Unwrap(call.result.val)).votes = call.agg.votes

\* With four witnesses of voting power 1, append returned the certificate
\* made of the three votes accepted, for the aggregator's root.
C29_Witness ==
    /\ ReturnedCertificate
    /\ committee = TestCommittee
    /\ Len(aggregator.votes) = 3
    /\ Unwrap(Unwrap(Unwrap(returned).val)).votes = aggregator.votes
    /\ Unwrap(Unwrap(Unwrap(returned).val)).root = aggregator.root

\* C30 -- Aggregator rejections: append fails with UnexpectedVote when the
\* root of the vote is not the aggregator's root; else with UnknownWitness
\* when the author has voting power 0 in the committee; else with
\* WitnessReuse when a vote of the author was accepted since the last reset.
\* In each of these cases the list of votes and the weight do not change.
C30_AggregatorRejections ==
    \A vote \in VoteInputs :
        LET call == append(aggregator, vote)
        IN  /\ vote.root # aggregator.root
                   => call.result = Err(UnexpectedVote(aggregator.root, vote.root))
            /\ (vote.root = aggregator.root /\ voting_power(vote.author) = 0)
                   => call.result = Err(UnknownWitness)
            /\ (/\ vote.root = aggregator.root
                /\ voting_power(vote.author) > 0
                /\ vote.author \in AuthorsOf(aggregator))
                   => call.result = Err(WitnessReuse)
            /\ (\/ vote.root # aggregator.root
                \/ voting_power(vote.author) = 0
                \/ vote.author \in AuthorsOf(aggregator))
                   => /\ ~call.result.ok
                      /\ call.agg.votes = aggregator.votes
                      /\ call.agg.weight = aggregator.weight

\* A witness whose vote was accepted voted again and append failed with
\* WitnessReuse, the votes and the weight gathered staying as they were.
C30_Witness ==
    /\ returned = Some(Err(WitnessReuse))
    /\ aggregator.weight > 0
    /\ Len(aggregator.votes) > 0
    /\ aggregator.used = AuthorsOf(aggregator)


\* C31 -- A failed append leaves the aggregator unchanged: whenever append
\* returns an error (wrong root, unknown witness, reused witness, or a vote
\* whose signature does not verify), the root, the weight, the list of votes
\* and the set of used authors are as before the call, so that a valid vote
\* for the aggregator's root by a member of the committee none of whose votes
\* was accepted since the last reset is accepted.
C31_FailedAppendUnchanged ==
    /\ [][(IsSome(returned') /\ ~Unwrap(returned').ok)
             => aggregator' = aggregator]_vars
    /\ [](\A vote \in VoteInputs :
              (/\ VerifyVote(vote).ok
               /\ vote.root = aggregator.root
               /\ voting_power(vote.author) > 0
               /\ vote.author \notin AuthorsOf(aggregator))
                  => append(aggregator, vote).result.ok)

\* append failed on a vote whose signature does not verify, and its author,
\* none of whose votes was accepted, is among the used authors.
C31_Witness ==
    /\ IsSome(returned)
    /\ ~Unwrap(returned).ok
    /\ Unwrap(returned).err \notin { WitnessReuse, UnknownWitness }
    /\ Unwrap(returned).err.name # "UnexpectedVote"
    /\ aggregator.used # AuthorsOf(aggregator)


\* C32 -- Every certificate emitted by the aggregator is valid: for any
\* sequence of calls of append, votes that verify and carry the aggregator's
\* root with different sequence numbers included, a certificate returned by
\* append passes PublishCertificate::verify: every signature in it is over the
\* digest of the certificate's own (root, sequence_number).
C32_EmittedCertificateValid ==
    ReturnedCertificate =>
        /\ VerifyCertificate(Unwrap(Unwrap(Unwrap(returned).val))).ok
        /\ EverySignatureValid(Unwrap(Unwrap(Unwrap(returned).val)))

\* append returned a certificate one of whose signatures is over the digest
\* of another sequence number than the certificate's.
C32_Witness ==
    /\ ReturnedCertificate
    /\ \E i \in 1..Len(aggregator.votes) :
           aggregator.votes[i][2].digest
               # digest(Unwrap(Unwrap(Unwrap(returned).val)))


\* C33 -- Reset equals fresh: after reset(root), whatever votes were appended
\* before and whether or not a certificate was returned, the aggregator is
\* the one Aggregator::new builds for that root (weight 0, no votes, no used
\* authors) and every call of append on it returns what it returns on the
\* new one and leaves the same aggregator.
C33_ResetEqualsFresh ==
    [][\A root \in Roots :
           AggregatorReset(root) =>
               /\ aggregator' = AggregatorNew(root)
               /\ \A vote \in VoteInputs :
                      append(aggregator', vote) = append(AggregatorNew(root), vote)]_vars

\* The aggregator, created for R0, was reset to another root after votes
\* were appended, and the votes appended since gave a certificate.
C33_Witness ==
    /\ aggregator.root # "R0"
    /\ ReturnedCertificate
    /\ Unwrap(Unwrap(Unwrap(returned).val)).root = aggregator.root
    /\ Unwrap(Unwrap(Unwrap(returned).val)).votes = aggregator.votes


\* ------------------------------------------------------------------------
\* Properties of the prover and of the batcher.

\* C34 -- Prover mirrors the AKD: whenever the prover waits for a batch its
\* sequence number is the last epoch published to the key directory, and
\* every notification it built for a batch carries the root of the key
\* directory at the epoch equal to its sequence number; also after the IdP
\* stopped at any point of the loop and was started again.
C34_ProverMirrorsAkd ==
    /\ idp_pc.prover = "run" => prover_seq = Len(akd)
    /\ \A i \in 1..Len(built) :
           /\ built[i].sequence_number \in 1..Len(akd)
           /\ Some(built[i].root) = get_root_hash_at_epoch(built[i].sequence_number)

\* The IdP stopped after a batch was published to the key directory and
\* before its notification was persisted; started again, the prover waits
\* for a batch with a sequence number below the last epoch.
C34_Witness ==
    /\ crashes = 1
    /\ idp_pc.prover = "run"
    /\ prover_seq < Len(akd)
    /\ idp_storage = EmptyIdpStorage


\* The notifications the publisher took from its channel since the IdP
\* started, in the order it took them.
TakenByPublisher ==
    broadcasts \o (IF idp_pc.publisher = "broadcast"
                   THEN << Unwrap(DeserializeNotification(Unwrap(serialized))) >>
                   ELSE << >>)

\* The notifications the prover sent since the IdP started: the restored one
\* if any, then those built from the batches.
SentByProver ==
    (IF IsSome(restored) THEN << RestoredNotification >> ELSE << >>) \o built

\* C35 -- Prover output ordering: within one run of the IdP the notifications
\* the prover builds for successive batches carry sequence numbers that
\* increase by exactly 1 from one to the next, each with the audit proof from
\* the epoch before, and the publisher receives them in the order they were
\* built: what it took followed by what waits in its channel is what the
\* prover sent.
C35_ProverOutputOrdering ==
    idp_pc.prover # "down" =>
        /\ \A i \in 1..Len(built) :
               /\ i > 1 => built[i].sequence_number = built[i - 1].sequence_number + 1
               /\ built[i].proof
                      = audit(built[i].sequence_number - 1, built[i].sequence_number)
        /\ TakenByPublisher \o rx_notification = SentByProver

\* The prover built two notifications in one run; the publisher took the
\* first and the second waits in its channel.
C35_Witness ==
    /\ Len(built) = 2
    /\ built[2].sequence_number = built[1].sequence_number + 1
    /\ rx_notification = << built[2] >>
    /\ built[1] \in Range(TakenByPublisher)


\* The (label, value) pairs that split the request into a first and a
\* second half: at the middle, or for an odd length one byte after it.
Halves(bytes) ==
    { << SubSeq(bytes, 1, k), SubSeq(bytes, k + 1, Len(bytes)) >> :
          k \in { Len(bytes) \div 2, (Len(bytes) + 1) \div 2 } }

\* C38 -- Request decoding: every request of at least 2 bytes, one of
\* exactly 2 bytes included, is decoded into a (label, value) pair whose
\* label is the first half and whose value is the second half of the input
\* and is appended to the current batch (which is sealed if full); every
\* shorter request is dropped and not appended; in neither case does the
\* batcher stop.
C38_RequestDecoding ==
    /\ [][\A u \in Updates :
              BatcherRecv(u) =>
                  /\ idp_pc'.batcher = "run"
                  /\ Len(u) >= 2 =>
                         /\ \E pair \in Halves(u) : decoded' = Append(decoded, pair)
                         /\ \/ current_batch' = Append(current_batch, decoded'[Len(decoded')])
                            \/ /\ current_batch' = << >>
                               /\ rx_batch' = Append(rx_batch,
                                       Append(current_batch, decoded'[Len(decoded')]))
                  /\ Len(u) < 2 =>
                         UNCHANGED << decoded, current_batch, rx_batch >>]_vars
    /\ [](idp_pc.batcher # "panicked")

\* The batcher received a request of exactly 2 bytes and stopped.
C38_Witness ==
    /\ idp_pc.batcher = "panicked"
    /\ submitted = 1
    /\ decoded = << >>


\* The batcher alone with its prover: clients send up to MaxRequests
\* requests, two of them well formed and distinct.
MaxRequests == 4

BatcherUpdates == Updates \cup { << 66, 66, 44, 65, 65 >> }

InitBatcher ==
    /\ InitIdpAlone
    /\ aggregator = AggregatorNew("R0")

NextBatcher ==
    \/ \E u \in BatcherUpdates :
           submitted < MaxRequests /\ BatcherRequest(u) /\ UNCHANGED nonidp
    \/ BatcherTimer /\ UNCHANGED nonidp
    \/ ProverPublish /\ UNCHANGED nonidp
    \/ ProverNotify /\ UNCHANGED nonidp

SpecBatcher == InitBatcher /\ [][NextBatcher]_vars

\* The batches sealed so far, in the order of their delivery to the prover:
\* those the prover has taken, then those waiting in the channel.
SealedBatches == akd \o rx_batch

RECURSIVE Flatten(_)
Flatten(batches) ==
    IF batches = << >> THEN << >>
    ELSE Head(batches) \o Flatten(Tail(batches))

\* C37 -- Batcher conservation and order: for every interleaving of requests
\* and timer firings, the sealed batches in delivery order followed by the
\* current batch are exactly the decoded requests in arrival order (none
\* lost, duplicated or reordered), and the batches reach the prover in the
\* order in which they were sealed.
C37_BatcherConservation ==
    /\ [](Flatten(SealedBatches) \o current_batch = decoded)
    /\ [][/\ Len(SealedBatches') >= Len(SealedBatches)
          /\ SubSeq(SealedBatches', 1, Len(SealedBatches)) = SealedBatches]_vars

\* Two different requests were sealed in two batches by the timer, a third
\* request waits in the current batch, and the prover has taken the first
\* batch while the second one waits.
C37_Witness ==
    /\ Len(akd) = 1
    /\ Len(rx_batch) = 1
    /\ akd[1] # rx_batch[1]
    /\ Len(current_batch) = 1
    /\ Len(decoded) = 3
    /\ submitted = MaxRequests


\* Properties of the witness handler's treatment of its messages

\* C39 -- Votes only on IdP-signed notifications: a notification that fails
\* verification (malformed id, or a signature not made by the IdP's key)
\* never produces a vote and never sets or changes the lock, even when its
\* sequence number is the witness's current one; the verification failure
\* is what the witness answers, whatever its sequence number and lock are.
\* Hence every vote a witness prepares answers a notification that verifies,
\* and is a new vote for that notification's root and sequence number or the
\* vote the witness is locked on.
C39_VotesOnlyOnSignedNotifications ==
    /\ [][\A w \in tracked : \A n \in Notifications :
              (pc[w] = "idle" /\ ~VerifyNotification(n).ok /\ RecvNotification(w, n)) =>
                  /\ lock' = lock
                  /\ storage' = storage
                  /\ voted' = voted
                  /\ pc'[w] = "idle"
                  /\ reply'[w] = Some(PublishVoteReply(VerifyNotification(n)))]_vars
    /\ [](\A w \in tracked :
              pc[w] = "reply_vote" =>
                  /\ IsSome(cur[w])
                  /\ VerifyNotification(Unwrap(cur[w]).notification).ok
                  /\ lock[w] = Some(Unwrap(cur[w]).vote))
    /\ [][\A w \in tracked :
              (pc[w] = "idle" /\ pc'[w] = "reply_vote") =>
                  \/ Unwrap(cur'[w]).vote = NewVote(Unwrap(cur'[w]).notification, w)
                  \/ Some(Unwrap(cur'[w]).vote) = lock[w]]_vars

\* A locked witness has answered a notification with the error of its
\* verification, and its lock is the vote it had issued.
C39_Witness ==
    \E w \in tracked :
        /\ pc[w] = "idle"
        /\ IsSome(reply[w])
        /\ Unwrap(reply[w]) \in { PublishVoteReply(VerifyNotification(n)) :
                                      n \in MalformedNotifications \cup BadlySignedNotifications }
        /\ IsSome(lock[w])
        /\ Unwrap(lock[w]) \in Votes


\* One witness and several connections to it. Each connection's dispatch
\* sends its message on the channel of its kind; inbox[w] lists the pending
\* messages of both channels in the order in which they were sent, so the
\* channel of a kind is the subsequence of the messages of that kind.
MaxPending == 2

DispatchedNotifications ==
    { NewNotification(r, "P0", s, IdpKey) : r \in Roots, s \in SeqNums }

DispatchedCertificates ==
    { Certificate(r, s, a) :
          r \in Roots, s \in SeqNums, a \in { << "w2", "w3", "w4" >>, << >> } }

\* WitnessHandler::dispatch: the message is sent to the publish handler.
Dispatch(w, kind, m) ==
    /\ Len(inbox[w]) < MaxPending
    /\ inbox' = [inbox EXCEPT ![w] = Append(@, [kind |-> kind, msg |-> m, round |-> 0])]
    /\ UNCHANGED << wvars, handles, serving >>

RemoveAt(q, i) == SubSeq(q, 1, i - 1) \o SubSeq(q, i + 1, Len(q))

\* PublishHandler::run, tokio::select! over rx_notification and
\* rx_certificate: one of the channels that hold a message is taken, and its
\* oldest message is handled.
WitnessSelect(w) ==
    /\ pc[w] = "idle"
    /\ \E i \in DOMAIN inbox[w] :
           /\ \A j \in 1..(i - 1) : inbox[w][j].kind # inbox[w][i].kind
           /\ inbox' = [inbox EXCEPT ![w] = RemoveAt(@, i)]
           /\ IF inbox[w][i].kind = "notification"
              THEN RecvNotification(w, inbox[w][i].msg)
              ELSE RecvCertificate(w, inbox[w][i].msg)
    /\ UNCHANGED << handles, serving >>

InitDispatch == Init

NextDispatch ==
    \/ \E w \in tracked, n \in DispatchedNotifications :
           Dispatch(w, "notification", n) /\ UNCHANGED << nonpipeline, pvars, aggregator >>
    \/ \E w \in tracked, c \in DispatchedCertificates :
           Dispatch(w, "certificate", c) /\ UNCHANGED << nonpipeline, pvars, aggregator >>
    \/ \E w \in tracked : WitnessSelect(w) /\ UNCHANGED << nonpipeline, pvars, aggregator >>
    \/ \E w \in tracked : ReplyVote(w) /\ UNCHANGED nonwitness
    \/ \E w \in tracked : ClearLock(w) /\ UNCHANGED nonwitness
    \/ \E w \in tracked : ReplyState(w) /\ UNCHANGED nonwitness

SpecDispatch == InitDispatch /\ [][NextDispatch]_vars

\* The handler takes a message of witness w in this step.
Takes(w) == Len(inbox'[w]) < Len(inbox[w])

\* C40 -- Witness processing order: a witness processes the IdP's messages
\* one at a time (a message is taken only when the handling of the previous
\* one, its storage writes included, is over), and a notification and a
\* certificate that are both pending are processed in the order in which
\* they arrived (the message taken is the oldest pending one).
C40_WitnessProcessingOrder ==
    [][\A w \in tracked :
           Takes(w) =>
               /\ pc[w] = "idle"
               /\ cur[w] = None
               /\ inbox'[w] = Tail(inbox[w])]_vars

\* A notification and a certificate of the same root and sequence number
\* are pending, the notification first.
C40_Witness ==
    \E w \in tracked :
        /\ pc[w] = "idle"
        /\ Len(inbox[w]) = 2
        /\ inbox[w][1].kind = "notification"
        /\ inbox[w][2].kind = "certificate"
        /\ inbox[w][1].msg.root = inbox[w][2].msg.root
        /\ inbox[w][1].msg.sequence_number = inbox[w][2].msg.sequence_number
====
